---- MODULE Spec2Model ----
(***************************************************************************)
(* Model of the two watchers of the kyma CLI.                              *)
(*                                                                         *)
(* The installation-progress watcher: command.waitForInstaller in          *)
(* internal/cmd/install/cmd.go, with the helpers it calls                  *)
(* (getInstallationStatus, printInstallationErrorLog); specification Spec. *)
(*                                                                         *)
(* The test-suite watcher of the test-run command: the end of command.Run, *)
(* waitForTestSuite, clusterTestSuiteCompleted and testResultStatistic;    *)
(* specification SpecWatch.                                                *)
(*                                                                         *)
(* Strings that the code inspects or formats are sequences of tokens, so   *)
(* that strings.Contains and fmt.Sprintf are computed, not assumed.  The   *)
(* token "%" is a percent sign; the token after it is the verb.            *)
(***************************************************************************)
EXTENDS Integers, Sequences, FiniteSets, TLC

\* ------------------------------------------------------------------ bounds

\* number of loop iterations of waitForInstaller that take a status sample
MaxSamples == 4

\* number of events the exit condition of the test-suite wait is given
MaxEvents == 2

\* number of conditions in the status of a test suite
MaxConds == 2

\* number of updates the rendering goroutine of the AsyncUI receives
MaxUpdates == 3

\* ------------------------------------------------------- inputs and strings

\* the nil error
Nil == <<>>

\* err.Error() of the errors Kubectl().RunCmd can return
ErrTimedOut == <<"operation", "timed", "out">>
ErrWrappedTimedOut == <<"kubectl", "get:", "operation", "timed", "out">>
ErrRefused == <<"connection", "refused">>

ErrMsgs == {ErrTimedOut, ErrWrappedTimedOut, ErrRefused}

\* .status.state values of the installation resource; "Unknown" stands for
\* every value the switch of waitForInstaller has no case for
Statuses == {"Installed", "Error", "InProgress", "", "Unknown"}

\* .status.description values
StepA == <<"step A">>
StepB == <<"step B">>
StepPct == <<"upgrade 50", "%">>

Descs == {<<>>, StepA, StepB, StepPct}

\* the description is read by the code only under InProgress (compared,
\* formatted) and under Error (printed)
DescsOf(status) ==
  IF status = "InProgress" THEN Descs
  ELSE IF status = "Error" THEN {StepA}
  ELSE {<<>>}

\* --timeout of the install command, a duration: zero and negative values
\* are "no deadline"
Timeouts == {-1, 0, 1}

\* strings.Contains(s, substr)
Contains(s, substr) ==
  \E i \in 1..(Len(s) + 1) :
    /\ i + Len(substr) - 1 <= Len(s)
    /\ SubSeq(s, i, i + Len(substr) - 1) = substr

\* fmt.Sprintf(format) called with no operands
RECURSIVE Sprintf(_)
Sprintf(format) ==
  IF format = <<>> THEN <<>>
  ELSE IF Head(format) # "%" THEN <<Head(format)>> \o Sprintf(Tail(format))
  ELSE IF Len(format) = 1 THEN <<"%!(NOVERB)">>
  ELSE IF format[2] = "%" THEN <<"%">> \o Sprintf(Tail(Tail(format)))
  ELSE <<"%!", format[2], "(MISSING)">> \o Sprintf(Tail(Tail(format)))

\* the test of line 897, strings.Contains("operation timed out", err.Error())
IsRetriable(err) == Contains(<<"operation", "timed", "out">>, err)

\* results of getInstallationStatus (named results status, desc, err): the
\* state query fails, or both queries succeed, or the description query fails
\* after the state was read.  A failed RunCmd is taken to return the empty
\* string next to its error, so a failed state query leaves status and desc
\* empty and a failed description query leaves desc empty.
GetInstallationStatus ==
  {[status |-> "", desc |-> <<>>, err |-> e] : e \in ErrMsgs}
  \cup UNION {{[status |-> s, desc |-> d, err |-> Nil] : d \in DescsOf(s)} : s \in Statuses}
  \cup {[status |-> s, desc |-> <<>>, err |-> e] : s \in Statuses, e \in ErrMsgs}

\* results of the state query made before the loop
GetState ==
  {[status |-> "", err |-> e] : e \in ErrMsgs}
  \cup {[status |-> s, err |-> Nil] : s \in Statuses}

\* ---------------------------------------------------------------- messages

WaitingLabel == <<"Waiting for installation to start">>
MsgRetry == <<"Could not get the status, retrying...">>
MsgFailed(desc) == desc \o <<" failed, which may be OK. Will retry later...">>
MsgFetchErrorLogs == <<"To fetch the error logs from the installer, run: kubectl get installation kyma-installation">>
MsgFetchAppLogs == <<"To fetch the application logs from the installer, run: kubectl logs -n kyma-installer -l name=kyma-installer">>
MsgNoStatus == <<"Failed to get the installation status. Will retry later...">>
MsgUnexpected(status) == <<"Unexpected status: ", status>>
MsgErrorLog == <<"errorLog">>

ErrTimeoutReached == <<"Timeout reached while waiting for installation to complete">>

\* ------------------------------------------------------------------- state

VARIABLES
  pc,            \* position of waitForInstaller: "start", "loop", "done", "exited"
  opts,          \* cmd.opts: [Timeout]
  CurrentStep,   \* cmd.CurrentStep: number of the step (0: none yet)
  currentDesc,   \* local currentDesc
  errorOccured,  \* local errorOccured
  timeout,       \* local timeout channel: "nil", "armed", "fired"
  result,        \* what waitForInstaller returned: ResNone, ResNil or ResErr(message)
  preSample,     \* the state query made before the loop: <<>> or <<its result>>
  samples,       \* results of getInstallationStatus, one per loop iteration
  sleeps,        \* number of time.Sleep(sleep) calls
  sink,          \* calls on steps and prints to stdout, in order
  testPc,        \* position of the test-run command: "idle", "start", "run" (line 151),
                 \* "sync" (waiting for the cache sync), "watch" (waiting for
                 \* an event), "returned"
  testOpts,      \* cmd.opts of the test-run command: [Timeout, Watch,
                 \* ExecutionCount, MaxRetries]
  testResource,  \* the suite handed to CreateTestSuite: [created, Count, MaxRetries]
  ctx,           \* ctx of waitForTestSuite: "none", "live", "expired", "cancelled"
  store,         \* the informer's cache: "unsynced", "absent", "present", "broken"
  watchOpened,   \* whether lw.WatchFunc was called
  events,        \* the events handed to the exit condition, in order
  waitStep,      \* calls received by waitStep, in order
  waitResult,    \* what waitForTestSuite returned
  runResult,     \* what command.Run of the test-run command returned
  runPc,         \* position of command.Run of the install command: "idle",
                 \* "validate", "start", "wait" (in waitForInstaller), "returned"
  clusterConfig, \* local clusterConfig of command.Run: [isLocal]
  runCalls,      \* the functions command.Run has called, in order
  installResult, \* what command.Run of the install command returned
  ui,            \* the AsyncUI object: [Errors ("nil" or "chan"), updates ("nil",
                 \* "open", "closed"), cancelled (the context), stopped, mu (0:
                 \* free, else the holder)], with closes (the number of
                 \* close calls made) and panic (the panic raised, "": none)
  renderer,      \* the rendering goroutine: [pc ("none", "range": waiting for
                 \* an update, "sendError": sending on Errors, "done"),
                 \* ongoingSteps, steps (number of steps created), err]
  stopPc,        \* position of each caller of Stop: "idle", "Lock", "Done"
                 \* (waiting for the context), "returned", "panic"
  updateLog,     \* the updates received, in order: [update, err (what the
                 \* rendering returned), done (its processing has ended)]
  uiSink,        \* calls on the steps of the AsyncUI, in order
  uiErrors,      \* the errors sent on the Errors channel, in order
  minikube,      \* command.Run of the provision command for Minikube: [pc
                 \* ("idle", "start", "prompt", "returned"), opts, statusText
                 \* (what minikube status printed), answers (given to the
                 \* prompt), cmds (the minikube commands and the functions
                 \* run, in order), result]
  mkSink         \* calls on the steps of the provision command, in order

runVars == <<runPc, clusterConfig, runCalls, installResult>>

installVars == <<pc, opts, CurrentStep, currentDesc, errorOccured, timeout, result,
                 preSample, samples, sleeps, sink,
                 runPc, clusterConfig, runCalls, installResult>>

testVars == <<testPc, testOpts, testResource, ctx, store, watchOpened, events, waitStep,
              waitResult, runResult>>

uiVars == <<ui, renderer, stopPc, updateLog, uiSink, uiErrors>>

mkVars == <<minikube, mkSink>>

vars == <<pc, opts, CurrentStep, currentDesc, errorOccured, timeout, result,
          preSample, samples, sleeps, sink,
          testPc, testOpts, testResource, ctx, store, watchOpened, events,
          waitStep, waitResult, runResult,
          runPc, clusterConfig, runCalls, installResult,
          ui, renderer, stopPc, updateLog, uiSink, uiErrors,
          minikube, mkSink>>

\* a call on a step (or a kubectl query / print), made in loop iteration iter
\* (0: before the loop)
Call(op, stepNo, text, iter) ==
  [op |-> op, step |-> stepNo, text |-> text, iter |-> iter]

\* calls on a step
NewStep(stepNo, label, iter) == Call("NewStep", stepNo, label, iter)
Success(stepNo, iter) == Call("Success", stepNo, <<>>, iter)
Failure(stepNo, iter) == Call("Failure", stepNo, <<>>, iter)
LogError(stepNo, msg, iter) == Call("LogError", stepNo, msg, iter)
LogInfo(stepNo, msg, iter) == Call("LogInfo", stepNo, msg, iter)
\* prints to stdout and the kubectl query of printInstallationErrorLog
Println(msg, iter) == Call("Println", 0, msg, iter)
QueryErrorLog(iter) == Call("RunCmd", 0, <<"get installation errorLog">>, iter)

\* return values of waitForInstaller
ResNone == [kind |-> "none", msg |-> <<>>]
ResNil == [kind |-> "nil", msg |-> <<>>]
ResErr(msg) == [kind |-> "error", msg |-> msg]

\* return values of waitForTestSuite and of the test-run command; reason is
\* the status reason apierrors.IsNotFound looks at
WNone == [kind |-> "none", reason |-> "", msg |-> <<>>]
WNil == [kind |-> "nil", reason |-> "", msg |-> <<>>]
WErr(reason, msg) == [kind |-> "error", reason |-> reason, msg |-> msg]

\* cmd.opts of the test-run command with the defaults of lines 90-91 and
\* the given timeout and watch option
TestOpts(t, w) == [Timeout |-> t, Watch |-> w, ExecutionCount |-> 1, MaxRetries |-> 0]

\* no suite was handed to CreateTestSuite
NoResource == [created |-> FALSE, Count |-> 0, MaxRetries |-> 0]

\* the goroutines that call Stop
Stoppers == {1, 2}

\* installation phases, process events and components of the deployment
\* package that update events carry
InstallationPhases == {"InstallPreRequisites", "InstallComponents"}

\* the AsyncUI object as constructed, with the Errors channel the caller gave
NewAsyncUI(errors) ==
  [Errors |-> errors, updates |-> "nil", cancelled |-> FALSE, stopped |-> FALSE,
   mu |-> 0, closes |-> 0, panic |-> ""]

\* no rendering goroutine is running
NoRenderer == [pc |-> "none", ongoingSteps |-> [p \in InstallationPhases |-> 0], steps |-> 0, err |-> Nil]

\* the options of the provision command for Minikube
MkOptions(nonInteractive, driver, switch) ==
  [NonInteractive |-> nonInteractive, VMDriver |-> driver, HypervVirtualSwitch |-> switch]

\* command.Run of the provision command in position p with options o
NewMinikube(p, o) ==
  [pc |-> p, opts |-> o, statusText |-> <<>>, answers |-> <<>>, cmds |-> <<>>,
   result |-> ResNone]

\* the provision command is not running
MkIdle ==
  /\ minikube = NewMinikube("idle", MkOptions(FALSE, "virtualbox", ""))
  /\ mkSink = <<>>

\* no AsyncUI is in use
UiIdle ==
  /\ ui = NewAsyncUI("nil")
  /\ renderer = NoRenderer
  /\ stopPc = [s \in Stoppers |-> "unused"]
  /\ updateLog = <<>>
  /\ uiSink = <<>>
  /\ uiErrors = <<>>

\* the test-run command is not running
TestIdle ==
  /\ testPc = "idle"
  /\ testOpts = TestOpts(0, FALSE)
  /\ testResource = NoResource
  /\ ctx = "none"
  /\ store = "unsynced"
  /\ watchOpened = FALSE
  /\ events = <<>>
  /\ waitStep = <<>>
  /\ waitResult = WNone
  /\ runResult = WNone

\* command.Run of the install command is not running
RunIdle ==
  /\ runPc = "idle"
  /\ clusterConfig = [isLocal |-> FALSE]
  /\ runCalls = <<>>
  /\ installResult = ResNone

\* the locals of waitForInstaller together with cmd.CurrentStep
St(cur, cd, eo) == [CurrentStep |-> cur, currentDesc |-> cd, errorOccured |-> eo]

\* what one piece of code does: the new locals, the calls it makes, where
\* control goes ("loop": on to time.Sleep and the next iteration, "done":
\* return, "exited": os.Exit) and the value returned
Outcome(st, calls, next, res) == [st |-> st, calls |-> calls, pc |-> next, result |-> res]

Init ==
  /\ pc = "start"
  /\ opts \in {[Timeout |-> t] : t \in Timeouts}
  /\ CurrentStep = 0
  /\ currentDesc = <<>>
  /\ errorOccured = FALSE
  /\ timeout = "nil"
  /\ result = ResNone
  /\ preSample = <<>>
  /\ samples = <<>>
  /\ sleeps = 0
  /\ sink = <<>>
  /\ TestIdle
  /\ RunIdle
  /\ UiIdle
  /\ MkIdle

\* ------------------------------------------------- waitForInstaller, pieces

\* (variant: the check of line 876 is missing)
ReturnsBeforeLoop_Never(status) == FALSE

\* line 876: the pre-loop sample ends the wait
ReturnsBeforeLoop(status) == status = "Installed"

\* (variant: the timer is armed whatever the option says)
ArmTimeout_Always(t) == "armed"

\* lines 880-884: the deadline timer
ArmTimeout(t) == IF t > 0 THEN "armed" ELSE "nil"

\* (variant: the default case is taken although the timeout channel is ready)
SelectTimeout_DefaultFirst(t) == FALSE

\* lines 887-888: select takes the timeout case when the channel is ready,
\* the default case otherwise
SelectTimeout(t) == t = "fired"

\* (variant: the step is not marked failed on timeout)
CaseTimeout_NoFailure(st, logOk, iter) ==
  Outcome(st,
          <<QueryErrorLog(iter)>>
            \o (IF logOk THEN <<Println(MsgErrorLog, iter)>> ELSE <<>>),
          "done", ResErr(ErrTimeoutReached))

\* lines 889-891 with printInstallationErrorLog (948-955): the log is
\* printed when the kubectl query succeeds; its error is dropped
CaseTimeout(st, logOk, iter) ==
  Outcome(st,
          <<Failure(st.CurrentStep, iter), QueryErrorLog(iter)>>
            \o (IF logOk THEN <<Println(MsgErrorLog, iter)>> ELSE <<>>),
          "done", ResErr(ErrTimeoutReached))

\* lines 905-907
CaseInstalled(st, iter) ==
  Outcome(st, <<Success(st.CurrentStep, iter)>>, "done", ResNil)

\* (variant: the report is repeated for every Error sample)
CaseError_NoSuppression(st, desc, iter) ==
  Outcome([st EXCEPT !.errorOccured = TRUE],
          <<LogError(st.CurrentStep, MsgFailed(desc), iter),
            LogInfo(st.CurrentStep, MsgFetchErrorLogs, iter),
            LogInfo(st.CurrentStep, MsgFetchAppLogs, iter)>>,
          "loop", ResNone)

\* lines 909-915
CaseError(st, desc, iter) ==
  IF ~st.errorOccured
  THEN Outcome([st EXCEPT !.errorOccured = TRUE],
               <<LogError(st.CurrentStep, MsgFailed(desc), iter),
                 LogInfo(st.CurrentStep, MsgFetchErrorLogs, iter),
                 LogInfo(st.CurrentStep, MsgFetchAppLogs, iter)>>,
               "loop", ResNone)
  ELSE Outcome(st, <<>>, "loop", ResNone)

\* (variant: every InProgress sample is reported, changed or not)
CaseInProgress_NoDedup(st, desc, iter) ==
  Outcome(St(st.CurrentStep + 1, desc, FALSE),
          <<Success(st.CurrentStep, iter),
            NewStep(st.CurrentStep + 1, Sprintf(desc), iter)>>,
          "loop", ResNone)

\* (variant: the new description is not recorded, line 923 missing)
CaseInProgress_NoRecord(st, desc, iter) ==
  IF desc # st.currentDesc
  THEN Outcome(St(st.CurrentStep + 1, st.currentDesc, FALSE),
               <<Success(st.CurrentStep, iter),
                 NewStep(st.CurrentStep + 1, Sprintf(desc), iter)>>,
               "loop", ResNone)
  ELSE Outcome(St(st.CurrentStep, st.currentDesc, FALSE), <<>>, "loop", ResNone)

\* (variant: errorOccured is not reset, line 918 missing)
CaseInProgress_NoReset(st, desc, iter) ==
  IF desc # st.currentDesc
  THEN Outcome(St(st.CurrentStep + 1, desc, st.errorOccured),
               <<Success(st.CurrentStep, iter),
                 NewStep(st.CurrentStep + 1, Sprintf(desc), iter)>>,
               "loop", ResNone)
  ELSE Outcome(st, <<>>, "loop", ResNone)

\* lines 917-924
CaseInProgress(st, desc, iter) ==
  IF desc # st.currentDesc
  THEN Outcome(St(st.CurrentStep + 1, desc, FALSE),
               <<Success(st.CurrentStep, iter),
                 NewStep(st.CurrentStep + 1, Sprintf(desc), iter)>>,
               "loop", ResNone)
  ELSE Outcome(St(st.CurrentStep, st.currentDesc, FALSE), <<>>, "loop", ResNone)

\* (variant: an empty status resets errorOccured)
CaseEmpty_Resets(st, iter) ==
  Outcome([st EXCEPT !.errorOccured = FALSE],
          <<LogInfo(st.CurrentStep, MsgNoStatus, iter)>>, "loop", ResNone)

\* lines 926-927
CaseEmpty(st, iter) ==
  Outcome(st, <<LogInfo(st.CurrentStep, MsgNoStatus, iter)>>, "loop", ResNone)

\* (variant: an unexpected status is logged and polled again)
CaseDefault_Continue(st, status, iter) ==
  Outcome(st, <<LogInfo(st.CurrentStep, MsgUnexpected(status), iter)>>, "loop", ResNone)

\* lines 929-932
CaseDefault(st, status, iter) ==
  Outcome(st,
          <<Failure(st.CurrentStep, iter), Println(MsgUnexpected(status), iter)>>,
          "exited", ResNone)

\* lines 904-933: the switch on status
Switch(st, s, iter) ==
  CASE s.status = "Installed" -> CaseInstalled(st, iter)
    [] s.status = "Error" -> CaseError(st, s.desc, iter)
    [] s.status = "InProgress" -> CaseInProgress(st, s.desc, iter)
    [] s.status = "" -> CaseEmpty(st, iter)
    [] OTHER -> CaseDefault(st, s.status, iter)

\* (variant: every sampling error is retried)
HandleSample_RetryAll(st, s, iter) ==
  LET o == Switch(st, s, iter)
  IN  IF s.err # Nil
      THEN [o EXCEPT !.calls = <<LogError(st.CurrentStep, MsgRetry, iter)>> \o @]
      ELSE o

\* lines 893-933: the default case of the select, given the sample s
HandleSample(st, s, iter) ==
  IF s.err # Nil /\ ~IsRetriable(s.err)
  THEN Outcome(st, <<>>, "done", ResErr(s.err))
  ELSE LET o == Switch(st, s, iter)
       IN  IF s.err # Nil
           THEN [o EXCEPT !.calls = <<LogError(st.CurrentStep, MsgRetry, iter)>> \o @]
           ELSE o

\* -------------------------------------------------------------- the actions

\* lines 868-884: up to the loop.  cmd.NewStep(...) of line 870 starts a step
\* and makes it cmd.CurrentStep, as line 922 does by hand; lines 889, 906,
\* 921 and 930 rely on it.
Begin ==
  /\ pc = "start"
  /\ \E s \in GetState :
       /\ preSample' = <<s>>
       /\ CurrentStep' = CurrentStep + 1
       /\ sink' = Append(sink, NewStep(CurrentStep + 1, WaitingLabel, 0))
       /\ IF s.err # Nil
          THEN pc' = "done" /\ result' = ResErr(s.err) /\ timeout' = timeout
          ELSE IF ReturnsBeforeLoop(s.status)
          THEN pc' = "done" /\ result' = ResNil /\ timeout' = timeout
          ELSE pc' = "loop" /\ result' = result /\ timeout' = ArmTimeout(opts.Timeout)
  /\ UNCHANGED <<opts, currentDesc, errorOccured, samples, sleeps>>
  /\ UNCHANGED testVars
  /\ UNCHANGED uiVars
  /\ UNCHANGED mkVars
  /\ UNCHANGED runVars

\* line 883: the timer of time.After(cmd.opts.Timeout) fires, at any moment
\* after it was armed
TimerFires ==
  /\ pc = "loop"
  /\ timeout = "armed"
  /\ timeout' = "fired"
  /\ UNCHANGED <<pc, opts, CurrentStep, currentDesc, errorOccured, result,
                 preSample, samples, sleeps, sink>>
  /\ UNCHANGED testVars
  /\ UNCHANGED uiVars
  /\ UNCHANGED mkVars
  /\ UNCHANGED runVars

Apply(o) ==
  /\ CurrentStep' = o.st.CurrentStep
  /\ currentDesc' = o.st.currentDesc
  /\ errorOccured' = o.st.errorOccured
  /\ sink' = sink \o o.calls
  /\ pc' = o.pc
  /\ result' = o.result
  /\ sleeps' = IF o.pc = "loop" THEN sleeps + 1 ELSE sleeps

\* lines 886-891: an iteration that finds the deadline elapsed
DeadlineExceeded ==
  /\ pc = "loop"
  /\ SelectTimeout(timeout)
  /\ \E logOk \in BOOLEAN :
       Apply(CaseTimeout(St(CurrentStep, currentDesc, errorOccured), logOk,
                         Len(samples) + 1))
  /\ UNCHANGED <<opts, timeout, preSample, samples>>
  /\ UNCHANGED testVars
  /\ UNCHANGED uiVars
  /\ UNCHANGED mkVars
  /\ UNCHANGED runVars

\* lines 886-935: an iteration that samples, classifies and sleeps
Poll ==
  /\ pc = "loop"
  /\ ~SelectTimeout(timeout)
  /\ Len(samples) < MaxSamples
  /\ \E s \in GetInstallationStatus :
       /\ samples' = Append(samples, s)
       /\ Apply(HandleSample(St(CurrentStep, currentDesc, errorOccured), s,
                             Len(samples) + 1))
  /\ UNCHANGED <<opts, timeout, preSample>>
  /\ UNCHANGED testVars
  /\ UNCHANGED uiVars
  /\ UNCHANGED mkVars
  /\ UNCHANGED runVars

Next == Begin \/ TimerFires \/ DeadlineExceeded \/ Poll

Spec == Init /\ [][Next]_vars

\* ===================================================== the test-suite watcher
\* src/unnamed/part_004: the test-run command (package run)

\* testResource.Name, the suite the field selector of lines 249-259 selects
SuiteName == "demo"

\* --timeout of the test-run command (line 93)
TestTimeouts == {0, 1}

\* conditions of a suite: a true condition of a non-terminal type, a
\* condition of a terminal type that is not true, and the three true
\* terminal conditions
Conds ==
  {[Type |-> "Running", Status |-> "True"],
   [Type |-> "Succeeded", Status |-> "False"],
   [Type |-> "Succeeded", Status |-> "True"],
   [Type |-> "Error", Status |-> "True"],
   [Type |-> "Failed", Status |-> "True"]}

SeqsUpTo(S, n) == UNION {[1..k -> S] : k \in 0..n}

\* ts.Status.Conditions
CondLists == SeqsUpTo(Conds, MaxConds)

\* ts.Status.Results, by the status of each test
ResultLists == {<<>>, <<"Succeeded", "Succeeded", "Failed", "Running">>}

\* event.Object: a *oct.ClusterTestSuite or an object of another type
Suite(conds, results) ==
  [kind |-> "ClusterTestSuite", Name |-> SuiteName, Conditions |-> conds,
   Results |-> results]
Suites == {Suite(c, r) : c \in CondLists, r \in ResultLists}
OtherObject == [kind |-> "Status", Name |-> "", Conditions |-> <<>>, Results |-> <<>>]

Event(type, object) == [type |-> type, object |-> object]

\* the events the watcher can deliver as its k-th event: a second Added of
\* the one selected suite cannot follow without a Deleted, which ends the wait
WatchEvents(k) ==
  {Event(t, o) : t \in (IF k = 1 THEN {"ADDED", "MODIFIED"} ELSE {"MODIFIED"}),
                 o \in Suites \cup {OtherObject}}
  \cup {Event("DELETED", Suite(<<>>, <<>>)), Event("ERROR", OtherObject)}

\* the decimal digits %d prints for the counts of testResultStatistic
Itoa(n) == <<"0", "1", "2", "3", "4", "5", "6", "7", "8", "9">>[n + 1]

\* fmt.Sprintf(format, a...) for the verbs %s and %d, the operands already
\* in their printed form
RECURSIVE Sprintfv(_, _)
Sprintfv(format, a) ==
  IF format = <<>> THEN (IF a = <<>> THEN <<>> ELSE <<"%!(EXTRA)">>)
  ELSE IF Head(format) # "%" THEN <<Head(format)>> \o Sprintfv(Tail(format), a)
  ELSE IF Len(format) = 1 THEN <<"%!(NOVERB)">>
  ELSE IF format[2] = "%" THEN <<"%">> \o Sprintfv(Tail(Tail(format)), a)
  ELSE IF a = <<>> THEN <<"%!", format[2], "(MISSING)">> \o Sprintfv(Tail(Tail(format)), a)
  ELSE <<Head(a)>> \o Sprintfv(Tail(Tail(format)), Tail(a))

WaitStepLabel == <<"Waiting for test suite to finish">>
FmtSucceeded == <<"Test suite '", "%", "s", "' execution succeeded">>
FmtErrored == <<"Test suite '", "%", "s", "' execution errored">>
FmtFailed == <<"Test suite '", "%", "s", "' execution failed">>
FmtStatistic ==
  <<"%", "d", " out of ", "%", "d", " test(s) have finished (Succeeded: ", "%", "d",
    ", Failed: ", "%", "d", ", Skipped: ", "%", "d", ")...">>

\* the errors of the wait
ErrNotFound(name) ==
  WErr("NotFound", <<"clustertestsuites.testing.kyma-project.io \"", name, "\" not found">>)
ErrStoreGet == WErr("", <<"store: get failed">>)
ErrUnexpectedEvent == WErr("", <<"internal error: unexpected event">>)
ErrWaitTimeout == WErr("", <<"timed out waiting for the condition">>)
ErrSync == WErr("", <<"UntilWithSync: unable to sync caches: context deadline exceeded">>)

\* a call on waitStep, made while the exit condition handles event number ev
\* (0: made by command.Run)
WCall(op, text, ev) == [op |-> op, text |-> text, ev |-> ev]

\* lines 306-328
Count(results, status) == Len(SelectSeq(results, LAMBDA t : t = status))

TestResultStatistic(ts) ==
  LET failed == Count(ts.Results, "Failed")
      succeeded == Count(ts.Results, "Succeeded")
      skipped == Count(ts.Results, "Skipped")
      finished == failed + succeeded + skipped
      all == Len(ts.Results)
  IN Sprintfv(FmtStatistic,
              <<Itoa(finished), Itoa(all), Itoa(succeeded), Itoa(failed), Itoa(skipped)>>)

\* what the exit condition answers: the calls it made on the step, and the
\* pair (done, err) it returns
Answer(calls, done, err) == [calls |-> calls, done |-> done, err |-> err]

\* (variant: the status of the condition is not looked at)
CondOutcome_AnyStatus(cond, ts, ev) ==
  IF cond.Type = "Succeeded"
  THEN Answer(<<WCall("Successf", Sprintfv(FmtSucceeded, <<ts.Name>>), ev)>>, TRUE, WNil)
  ELSE IF cond.Type = "Error"
  THEN Answer(<<WCall("Failuref", Sprintfv(FmtErrored, <<ts.Name>>), ev)>>, TRUE, WNil)
  ELSE IF cond.Type = "Failed"
  THEN Answer(<<WCall("Failuref", Sprintfv(FmtFailed, <<ts.Name>>), ev)>>, TRUE, WNil)
  ELSE Answer(<<>>, FALSE, WNil)

\* lines 279-291: one condition of the list
CondOutcome(cond, ts, ev) ==
  IF cond.Status = "True" /\ cond.Type = "Succeeded"
  THEN Answer(<<WCall("Successf", Sprintfv(FmtSucceeded, <<ts.Name>>), ev)>>, TRUE, WNil)
  ELSE IF cond.Status = "True" /\ cond.Type = "Error"
  THEN Answer(<<WCall("Failuref", Sprintfv(FmtErrored, <<ts.Name>>), ev)>>, TRUE, WNil)
  ELSE IF cond.Status = "True" /\ cond.Type = "Failed"
  THEN Answer(<<WCall("Failuref", Sprintfv(FmtFailed, <<ts.Name>>), ev)>>, TRUE, WNil)
  ELSE Answer(<<>>, FALSE, WNil)

\* lines 278-293: the loop over the conditions; line 292 is reached for
\* every condition that did not return
RECURSIVE RangeConditions(_, _, _)
RangeConditions(conds, ts, ev) ==
  IF conds = <<>> THEN Answer(<<>>, FALSE, WNil)
  ELSE LET o == CondOutcome(Head(conds), ts, ev)
       IN IF o.done THEN o
          ELSE LET rest == RangeConditions(Tail(conds), ts, ev)
               IN Answer(<<WCall("Status", TestResultStatistic(ts), ev)>> \o rest.calls,
                         rest.done, rest.err)

\* (variant: a deletion is not an error)
CaseDeleted_Ignored == Answer(<<>>, FALSE, WNil)

\* lines 295-297: the suite was deleted
CaseDeleted == Answer(<<>>, FALSE, ErrNotFound(""))

\* (variant: an event of an unknown type is skipped)
CaseUnknown_Skipped == Answer(<<>>, FALSE, WNil)

\* lines 298-299: an event of any other type
CaseUnknown == Answer(<<>>, TRUE, ErrUnexpectedEvent)

\* lines 273-303: the exit condition
ClusterTestSuiteCompleted(event, ev) ==
  IF event.type \in {"ADDED", "MODIFIED"}
  THEN IF event.object.kind = "ClusterTestSuite"
       THEN RangeConditions(event.object.Conditions, event.object, ev)
       ELSE Answer(<<>>, FALSE, WNil)
  ELSE IF event.type = "DELETED"
  THEN CaseDeleted
  ELSE CaseUnknown

\* (variant: an absent suite is waited for)
PreconditionFunc_Waits(st) ==
  IF st = "broken" THEN [done |-> TRUE, err |-> ErrStoreGet]
  ELSE [done |-> FALSE, err |-> WNil]

\* lines 235-247: store.Get fails, finds nothing, or finds the suite
PreconditionFunc(st) ==
  IF st = "broken" THEN [done |-> TRUE, err |-> ErrStoreGet]
  ELSE IF st = "absent" THEN [done |-> TRUE, err |-> ErrNotFound(SuiteName)]
  ELSE [done |-> FALSE, err |-> WNil]

\* (variant: the step is never marked failed by command.Run)
FailureOnError_Never(err) == <<>>

\* (variant: the step is marked failed whatever the wait returned)
FailureOnError_Always(err) == <<WCall("Failure", <<>>, 0)>>

\* lines 153-156 of command.Run
FailureOnError(err) ==
  IF err.kind = "error" THEN <<WCall("Failure", <<>>, 0)>> ELSE <<>>

\* line 267 and lines 153-158: waitForTestSuite returns err after the exit
\* condition made the given calls; the deferred cancel of line 233 runs;
\* command.Run marks the step and returns the same value
Return(calls, err) ==
  /\ waitResult' = err
  /\ runResult' = err
  /\ waitStep' = waitStep \o calls \o FailureOnError(err)
  /\ testPc' = "returned"
  /\ ctx' = IF ctx = "expired" THEN "expired" ELSE "cancelled"

\* (variant: the context gets a deadline whatever the option says)
WithTimeout_Always(t) == TRUE

\* lines 230-232: the context gets a deadline
WithTimeout(t) == t > 0

\* lines 151-152, 229-233 and 263: the step is created, the context is made
\* and UntilWithSync starts the informer and waits for its cache to sync
RunTest ==
  /\ testPc = "run"
  /\ waitStep' = Append(waitStep, WCall("NewStep", WaitStepLabel, 0))
  /\ ctx' = "live"
  /\ testPc' = "sync"
  /\ UNCHANGED <<testOpts, testResource, store, watchOpened, events, waitResult, runResult>>
  /\ UNCHANGED installVars
  /\ UNCHANGED uiVars
  /\ UNCHANGED mkVars

\* lines 230-232: the deadline of context.WithTimeout passes, at any moment
\* while the wait is pending
ContextDeadline ==
  /\ testPc \in {"sync", "watch"}
  /\ WithTimeout(testOpts.Timeout)
  /\ ctx = "live"
  /\ ctx' = "expired"
  /\ UNCHANGED <<testPc, testOpts, testResource, store, watchOpened, events, waitStep,
                 waitResult, runResult>>
  /\ UNCHANGED installVars
  /\ UNCHANGED uiVars
  /\ UNCHANGED mkVars

\* lines 251-254: the informer of UntilWithSync calls lw.ListFunc and fills
\* the cache, in its own goroutine
InformerList ==
  /\ testPc = "sync"
  /\ store = "unsynced"
  /\ store' \in {"absent", "present", "broken"}
  /\ UNCHANGED <<testPc, testOpts, testResource, ctx, watchOpened, events, waitStep,
                 waitResult, runResult>>
  /\ UNCHANGED installVars
  /\ UNCHANGED uiVars
  /\ UNCHANGED mkVars

\* lines 255-258: after the list, the informer calls lw.WatchFunc, in its
\* own goroutine and whatever the precondition will say
InformerWatch ==
  /\ testPc \in {"sync", "watch"}
  /\ store # "unsynced"
  /\ ~watchOpened
  /\ watchOpened' = TRUE
  /\ UNCHANGED <<testPc, testOpts, testResource, ctx, store, events, waitStep,
                 waitResult, runResult>>
  /\ UNCHANGED installVars
  /\ UNCHANGED uiVars
  /\ UNCHANGED mkVars

\* line 263: UntilWithSync sees the cache synced and evaluates the
\* precondition: an error is returned, done without error returns nil,
\* otherwise the events are waited for
CacheSynced ==
  /\ testPc = "sync"
  /\ store # "unsynced"
  /\ LET p == PreconditionFunc(store)
     IN IF p.err # WNil THEN Return(<<>>, p.err)
        ELSE IF p.done THEN Return(<<>>, WNil)
        ELSE /\ testPc' = "watch"
             /\ UNCHANGED <<ctx, waitStep, waitResult, runResult>>
  /\ UNCHANGED <<testOpts, testResource, store, watchOpened, events>>
  /\ UNCHANGED installVars
  /\ UNCHANGED uiVars
  /\ UNCHANGED mkVars

\* line 263: the context ends while UntilWithSync waits for the cache sync
SyncAborted ==
  /\ testPc = "sync"
  /\ ctx = "expired"
  /\ Return(<<>>, ErrSync)
  /\ UNCHANGED <<testOpts, testResource, store, watchOpened, events>>
  /\ UNCHANGED installVars
  /\ UNCHANGED uiVars
  /\ UNCHANGED mkVars

\* the results of a suite are added as its tests are scheduled and are never
\* removed: a suite without results is not seen after one with results
ResultsKept(seen, event) ==
  (/\ event.type \in {"ADDED", "MODIFIED"}
   /\ event.object.kind = "ClusterTestSuite"
   /\ event.object.Results = <<>>) =>
    \A k \in 1..Len(seen) :
      seen[k].object.kind = "ClusterTestSuite" => seen[k].object.Results = <<>>

\* lines 263-265: an event arrives and the exit condition is applied to it;
\* an error is returned first, done returns nil, otherwise the wait goes on.
\* The object found by the list is delivered as Added; every other event
\* comes from the watch stream.
Receive ==
  /\ testPc = "watch"
  /\ Len(events) < MaxEvents
  /\ \E event \in WatchEvents(Len(events) + 1) :
       /\ event.type = "ADDED" \/ watchOpened
       /\ ResultsKept(events, event)
       /\ events' = Append(events, event)
       /\ LET r == ClusterTestSuiteCompleted(event, Len(events) + 1)
          IN IF r.err # WNil THEN Return(r.calls, r.err)
             ELSE IF r.done THEN Return(r.calls, WNil)
             ELSE /\ waitStep' = waitStep \o r.calls
                  /\ UNCHANGED <<testPc, ctx, waitResult, runResult>>
  /\ UNCHANGED <<testOpts, testResource, store, watchOpened>>
  /\ UNCHANGED installVars
  /\ UNCHANGED uiVars
  /\ UNCHANGED mkVars

\* lines 263-267: the context ends while the wait is for the next event
WatchTimeout ==
  /\ testPc = "watch"
  /\ ctx = "expired"
  /\ Return(<<>>, ErrWaitTimeout)
  /\ UNCHANGED <<testOpts, testResource, store, watchOpened, events>>
  /\ UNCHANGED installVars
  /\ UNCHANGED uiVars
  /\ UNCHANGED mkVars

\* the test-run command has created the suite (line 149) and the install
\* command is not running
WatchInit ==
  /\ pc = "idle"
  /\ opts = [Timeout |-> 0]
  /\ CurrentStep = 0
  /\ currentDesc = <<>>
  /\ errorOccured = FALSE
  /\ timeout = "nil"
  /\ result = ResNone
  /\ preSample = <<>>
  /\ samples = <<>>
  /\ sleeps = 0
  /\ sink = <<>>
  /\ RunIdle
  /\ UiIdle
  /\ MkIdle
  /\ testPc = "run"
  /\ testOpts \in {TestOpts(t, TRUE) : t \in TestTimeouts}
  /\ testResource = [created |-> TRUE, Count |-> 1, MaxRetries |-> 0]
  /\ ctx = "none"
  /\ store = "unsynced"
  /\ watchOpened = FALSE
  /\ events = <<>>
  /\ waitStep = <<>>
  /\ waitResult = WNone
  /\ runResult = WNone

WatchNext ==
  \/ RunTest
  \/ ContextDeadline
  \/ InformerList
  \/ InformerWatch
  \/ CacheSynced
  \/ SyncAborted
  \/ Receive
  \/ WatchTimeout

SpecWatch == WatchInit /\ [][WatchNext]_vars

\* ------------------------------------------- the test-run command as a whole

\* --count and --max-retries (lines 90-91)
Counts == {1, 2}
Retries == {0, 1}

\* lines 180-198: the suite made from the options
GenerateTestsResource(o) ==
  [created |-> TRUE, Count |-> o.ExecutionCount, MaxRetries |-> o.MaxRetries]

\* the errors lines 99-149 can return
ErrNoClient == WErr("", <<"Could not initialize the Kubernetes client">>)
ErrListSuites == WErr("", <<"Unable to list test suites">>)
ErrExists == WErr("", Sprintfv(<<"Test suite '", "%", "s", "' already exists">>, <<SuiteName>>))
ErrListDefs == WErr("", <<"Unable to get the list of test definitions">>)
ErrNoMatch == WErr("", <<"Test defintion not found in the list of cluster test definitions">>)
ErrCreate == WErr("", <<"create failed">>)

CreateErrors == {ErrNoClient, ErrListSuites, ErrExists, ErrListDefs, ErrNoMatch, ErrCreate}

\* lines 98-150 of command.Run: the client is made (with or without timeout,
\* by the watch option), the name is checked to be free, the definitions are
\* listed and matched, the suite is generated from the options and created;
\* the first failure is returned
CreateSuite ==
  /\ testPc = "start"
  /\ \/ /\ testResource' = GenerateTestsResource(testOpts)
        /\ testPc' = "run"
        /\ runResult' = runResult
     \/ \E err \in CreateErrors :
          /\ runResult' = err
          /\ testPc' = "returned"
          /\ testResource' = testResource
  /\ UNCHANGED <<testOpts, ctx, store, watchOpened, events, waitStep, waitResult>>
  /\ UNCHANGED installVars
  /\ UNCHANGED uiVars
  /\ UNCHANGED mkVars

\* the test-run command is started with any combination of its options
TestRunInit ==
  /\ pc = "idle"
  /\ opts = [Timeout |-> 0]
  /\ CurrentStep = 0
  /\ currentDesc = <<>>
  /\ errorOccured = FALSE
  /\ timeout = "nil"
  /\ result = ResNone
  /\ preSample = <<>>
  /\ samples = <<>>
  /\ sleeps = 0
  /\ sink = <<>>
  /\ RunIdle
  /\ UiIdle
  /\ MkIdle
  /\ testPc = "start"
  /\ testOpts \in {[Timeout |-> t, Watch |-> w, ExecutionCount |-> c, MaxRetries |-> r] :
                     t \in TestTimeouts, w \in BOOLEAN, c \in Counts, r \in Retries}
  /\ testResource = NoResource
  /\ ctx = "none"
  /\ store = "unsynced"
  /\ watchOpened = FALSE
  /\ events = <<>>
  /\ waitStep = <<>>
  /\ waitResult = WNone
  /\ runResult = WNone

TestRunNext ==
  \/ CreateSuite
  \/ RunTest
  \/ ContextDeadline
  \/ InformerList
  \/ InformerWatch
  \/ CacheSynced
  \/ SyncAborted
  \/ Receive
  \/ WatchTimeout

SpecTestRun == TestRunInit /\ [][TestRunNext]_vars

TypeOK ==
  /\ pc \in {"idle", "start", "loop", "done", "exited"}
  /\ runPc \in {"idle", "validate", "start", "wait", "returned"}
  /\ clusterConfig.isLocal \in BOOLEAN
  /\ installResult.kind \in {"none", "nil", "error"}
  /\ timeout \in {"nil", "armed", "fired"}
  /\ errorOccured \in BOOLEAN
  /\ currentDesc \in Descs
  /\ Len(samples) <= MaxSamples
  /\ Len(preSample) <= 1
  /\ testPc \in {"idle", "start", "run", "sync", "watch", "returned"}
  /\ testOpts.Timeout \in TestTimeouts
  /\ ctx \in {"none", "live", "expired", "cancelled"}
  /\ store \in {"unsynced", "absent", "present", "broken"}
  /\ watchOpened \in BOOLEAN
  /\ Len(events) <= MaxEvents
  /\ waitResult.kind \in {"none", "nil", "error"}
  /\ testOpts.Watch \in BOOLEAN
  /\ testResource.created \in BOOLEAN
  /\ waitResult # WNone => runResult = waitResult

\* ======================================================= the install command
\* src/internal/cmd/install/cmd.go: validateFlags and command.Run

\* strings the code takes apart are sequences of characters
Chars(str) ==
  CASE str = "local" -> <<"l", "o", "c", "a", "l">>
    [] str = "Local" -> <<"L", "o", "c", "a", "l">>
    [] str = "latest" -> <<"l", "a", "t", "e", "s", "t">>
    [] str = "1.3.0" -> <<"1", ".", "3", ".", "0">>
    [] str = "me/img" -> <<"m", "e", "/", "i", "m", "g">>
    [] str = "1.x" -> <<"1", ".", "x">>

\* --source: "local" in two spellings, "latest", a release version, an
\* installer image, and a string that is none of them
Sources == {Chars("local"), Chars("Local"), Chars("latest"), Chars("1.3.0"),
            Chars("me/img"), Chars("1.x")}

\* line 64 and the flags of lines 131-133, 135
localDomain == "kyma.local"
Domains == {localDomain, "example.com"}
TLSKeys == {"", "key"}
TLSCerts == {"", "cert"}
LocalSrcPaths == {"", "/src/kyma"}

DefaultKymaVersion == <<"DefaultKymaVersion">>

\* strings.ToLower
ToLowerChar(c) == IF c = "L" THEN "l" ELSE c
ToLower(str) == [i \in 1..Len(str) |-> ToLowerChar(str[i])]

\* strings.Split(s, sep), sep one character
RECURSIVE Split(_, _)
Split(str, sep) ==
  IF \A i \in 1..Len(str) : str[i] # sep THEN <<str>>
  ELSE LET i == CHOOSE i \in 1..Len(str) :
                  str[i] = sep /\ \A j \in 1..(i - 1) : str[j] # sep
       IN <<SubSeq(str, 1, i - 1)>> \o Split(SubSeq(str, i + 1, Len(str)), sep)

Digits == {"0", "1", "2", "3", "4", "5", "6", "7", "8", "9"}

\* lines 263-266: semver.NewVersion accepts one to three groups of digits
\* separated by dots (prefix v, pre-release and metadata are not modelled)
IsSemVer(str) ==
  LET parts == Split(str, ".")
  IN /\ Len(parts) <= 3
     /\ \A k \in 1..Len(parts) :
          parts[k] # <<>> /\ \A i \in 1..Len(parts[k]) : parts[k][i] \in Digits

\* lines 268-270
IsDockerImage(str) == Len(Split(str, "/")) > 1

\* cmd.opts of the install command
InstallOpts(t, noWait, source, domain, key, cert, srcPath) ==
  [Timeout |-> t, NoWait |-> noWait, Source |-> source, Domain |-> domain,
   TLSKey |-> key, TLSCert |-> cert, LocalSrcPath |-> srcPath,
   Local |-> FALSE, ReleaseVersion |-> <<>>, ConfigVersion |-> <<>>,
   RemoteImage |-> <<>>]

\* what validateFlags finds outside the options: whether GOPATH is set,
\* whether the two os.Stat calls succeed, whether getMasterHash succeeds
Envs == [goPath : BOOLEAN, srcStat : BOOLEAN, resStat : BOOLEAN, masterHash : BOOLEAN]

ErrNoSrcPath == <<"No 'src-path' configured and no applicable default found. Check if you exported a GOPATH">>
ErrSrcPath == <<"Configured 'src-path' does not exist. Check if you configured a valid path">>
ErrNotKymaRepo == <<"Configured 'src-path' does not seem to point to a Kyma repository.">>
ErrLatest == <<"Unable to get latest version of kyma">>
ErrSourceFlag == <<"Failed to parse the source flag.">>
ErrTogether == <<"You specified one of the --domain, --tlsKey, or --tlsCert without specifying the others. They must be specified together">>

Validated(o, err) == [opts |-> o, err |-> err]

\* (variant: a domain alone is accepted)
DomainCheck_DomainAlone(o) ==
  IF (o.TLSKey # "" \/ o.TLSCert # "")
     /\ ~(o.Domain # localDomain /\ o.TLSKey # "" /\ o.TLSCert # "")
  THEN ErrTogether ELSE Nil

\* lines 321-327
DomainCheck(o) ==
  IF (o.Domain # localDomain \/ o.TLSKey # "" \/ o.TLSCert # "")
     /\ ~(o.Domain # localDomain /\ o.TLSKey # "" /\ o.TLSCert # "")
  THEN ErrTogether ELSE Nil

\* lines 273-319: the switch on the source; the options it sets are set
\* also when it returns an error afterwards
SourceCheck(o, env) ==
  IF ToLower(o.Source) = Chars("local")
  THEN LET o1 == [o EXCEPT !.Local = TRUE, !.ReleaseVersion = DefaultKymaVersion,
                           !.ConfigVersion = DefaultKymaVersion]
           o2 == IF o1.LocalSrcPath = "" /\ env.goPath
                 THEN [o1 EXCEPT !.LocalSrcPath = "$GOPATH/src/github.com/kyma-project/kyma"]
                 ELSE o1
       IN IF o1.LocalSrcPath = "" /\ ~env.goPath THEN Validated(o1, ErrNoSrcPath)
          ELSE IF ~env.srcStat THEN Validated(o2, ErrSrcPath)
          ELSE IF ~env.resStat THEN Validated(o2, ErrNotKymaRepo)
          ELSE Validated(o2, Nil)
  ELSE IF ToLower(o.Source) = Chars("latest")
  THEN IF ~env.masterHash THEN Validated(o, ErrLatest)
       ELSE Validated([o EXCEPT !.ReleaseVersion = <<"master-", "hash">>,
                                !.ConfigVersion = <<"master">>], Nil)
  ELSE IF IsSemVer(o.Source)
  THEN Validated([o EXCEPT !.ReleaseVersion = o.Source, !.ConfigVersion = o.Source], Nil)
  ELSE IF IsDockerImage(o.Source)
  THEN Validated([o EXCEPT !.RemoteImage = o.Source,
                           !.ConfigVersion = DefaultKymaVersion], Nil)
  ELSE Validated(o, ErrSourceFlag)

\* lines 272-328
ValidateFlags(o, env) ==
  LET v == SourceCheck(o, env)
  IN IF v.err # Nil THEN v ELSE Validated(v.opts, DomainCheck(v.opts))

\* a specification of validateFlags alone: every combination of the options
\* it reads
ValidateInit ==
  /\ pc = "idle"
  /\ opts \in {InstallOpts(0, FALSE, src, d, k, c, path) :
                 src \in Sources, d \in Domains, k \in TLSKeys, c \in TLSCerts,
                 path \in LocalSrcPaths}
  /\ CurrentStep = 0
  /\ currentDesc = <<>>
  /\ errorOccured = FALSE
  /\ timeout = "nil"
  /\ result = ResNone
  /\ preSample = <<>>
  /\ samples = <<>>
  /\ sleeps = 0
  /\ sink = <<>>
  /\ TestIdle
  /\ UiIdle
  /\ MkIdle
  /\ runPc = "validate"
  /\ clusterConfig = [isLocal |-> FALSE]
  /\ runCalls = <<>>
  /\ installResult = ResNone

\* lines 272-328: validateFlags is called
Validate ==
  /\ runPc = "validate"
  /\ \E env \in Envs :
       LET v == ValidateFlags(opts, env)
       IN /\ opts' = v.opts
          /\ installResult' = IF v.err = Nil THEN ResNil ELSE ResErr(v.err)
  /\ runCalls' = Append(runCalls, "validateFlags")
  /\ runPc' = "returned"
  /\ UNCHANGED <<pc, CurrentStep, currentDesc, errorOccured, timeout, result,
                 preSample, samples, sleeps, sink, clusterConfig>>
  /\ UNCHANGED testVars
  /\ UNCHANGED uiVars
  /\ UNCHANGED mkVars

ValidateNext == Validate

SpecValidate == ValidateInit /\ [][ValidateNext]_vars

\* ------------------------------------------ command.Run of the install command

\* a step of command.Run: the function it calls, the label of the step and
\* the message of its Successf
RunStep(op, label, done) == [op |-> op, label |-> label, done |-> done]

\* the steps of command.Run, lines 150-255
Steps ==
  [validate |-> RunStep("validateFlags", <<"Validating configuration">>, <<"Configuration validated">>),
   source |-> RunStep("", <<"Checking installation source">>, <<"Installation source checked">>),
   tiller |-> RunStep("installTiller", <<"Installing Tiller">>, <<"Tiller deployed">>),
   clusterInfo |-> RunStep("getClusterInfoFromConfigMap", <<"Reading cluster info from ConfigMap">>,
                           <<"Cluster info read">>),
   load |-> RunStep("loadAndConfigureInstallationFiles", <<"Loading installation files">>,
                    <<"Installation files loaded">>),
   installer |-> RunStep("installInstaller", <<"Deploying Kyma Installer">>, <<"Kyma Installer deployed">>),
   minikube |-> RunStep("patchMinikubeIP", <<"Adding Minikube IP to the overrides">>, <<"Minikube IP added">>),
   ownDomain |-> RunStep("createOwnDomainConfigMap", <<"Creating own domain ConfigMap">>,
                         <<"ConfigMap created">>),
   helm |-> RunStep("configureHelm", <<"Configuring Helm">>, <<"Helm configured">>),
   activate |-> RunStep("activateInstaller", <<"Requesting Kyma Installer to install Kyma">>,
                        <<"Kyma Installer is installing Kyma">>),
   hosts |-> RunStep("addDevDomainsToEtcHosts", <<"Adding domains to /etc/hosts">>, <<"Domains added">>)]

\* lines 172-235: the steps after the source check, by the cluster info read
\* at line 180 and the domain option
RunSteps(o, isLocal) ==
  <<Steps.tiller, Steps.clusterInfo, Steps.load, Steps.installer>>
  \o (IF isLocal THEN <<Steps.minikube>>
      ELSE IF o.Domain # localDomain THEN <<Steps.ownDomain>>
      ELSE <<>>)
  \o <<Steps.helm, Steps.activate>>

\* the error a failed function returns
ErrOf(op) == <<op, ": failed">>
ErrClient ==
  <<"Could not initialize the Kubernetes client. Make sure your kubeconfig is valid", ": ", "kube.NewFromConfig: failed">>

\* what a part of command.Run did: the calls on steps, the functions called,
\* the error it ended with (Nil: none) and the number of the current step
Did(calls, ops, err, cur) == [calls |-> calls, ops |-> ops, err |-> err, cur |-> cur]

\* the steps are run in order; the one at position failAt (0: none) fails:
\* its step is marked failed and the error ends the run
RECURSIVE DoSteps(_, _, _)
DoSteps(steps, failAt, cur) ==
  IF steps = <<>> THEN Did(<<>>, <<>>, Nil, cur)
  ELSE LET h == Head(steps)
           n == cur + 1
       IN IF failAt = 1
          THEN Did(<<NewStep(n, h.label, 0), Failure(n, 0)>>, <<h.op>>, ErrOf(h.op), n)
          ELSE LET r == DoSteps(Tail(steps), failAt - 1, n)
               IN Did(<<NewStep(n, h.label, 0), Call("Successf", n, h.done, 0)>> \o r.calls,
                      <<h.op>> \o r.ops, r.err, r.cur)

\* lines 157-170: the step that reports the installation source
CheckSource(o, n) ==
  <<NewStep(n, Steps.source.label, 0)>>
  \o (IF o.Local
      THEN <<Call("LogInfof", n, <<"Installing Kyma from local path: '", o.LocalSrcPath, "'">>, 0)>>
      ELSE (IF o.ReleaseVersion # o.ConfigVersion
            THEN <<Call("LogInfof", n, <<"Using the installation configuration from '">> \o o.ConfigVersion \o <<"'">>, 0)>>
            ELSE <<>>)
           \o (IF o.RemoteImage # <<>>
               THEN <<Call("LogInfof", n, <<"Installing Kyma with installer image '">> \o o.RemoteImage \o <<"'. ">>, 0)>>
               ELSE <<Call("LogInfof", n, <<"Installing Kyma in version '">> \o o.ReleaseVersion \o <<"'. ">>, 0)>>))
  \o <<Call("Successf", n, Steps.source.done, 0)>>

\* lines 146-235: from the client to the activation of the installer
RunPrefix(o, clientOk, env, isLocal, failAt) ==
  LET v == ValidateFlags(o, env)
  IN IF ~clientOk THEN [opts |-> o, did |-> Did(<<>>, <<>>, ErrClient, 0)]
     ELSE IF v.err # Nil
     THEN [opts |-> v.opts,
           did |-> Did(<<NewStep(1, Steps.validate.label, 0), Failure(1, 0)>>,
                       <<Steps.validate.op>>, v.err, 1)]
     ELSE LET r == DoSteps(RunSteps(v.opts, isLocal), failAt, 2)
          IN [opts |-> v.opts,
              did |-> Did(<<NewStep(1, Steps.validate.label, 0), Call("Successf", 1, Steps.validate.done, 0)>>
                            \o CheckSource(v.opts, 2) \o r.calls,
                          <<Steps.validate.op>> \o r.ops, r.err, r.cur)]

\* (variant: the wait is made whatever the option says)
WaitsForInstaller_Always(o) == TRUE

\* line 237
WaitsForInstaller(o) == ~o.NoWait

\* how ca.Certificate, the temporary file and ca.StoreCertificate can end
CertOutcomes == {"ok", "certificateFailed", "fileFailed", "storeFailed"}

\* line 990, and the text of ca.Instructions() logged at line 992
CertMsgs == [imported |-> <<"Kyma root certificate imported">>, instructions |-> <<"ca.Instructions()">>]

\* lines 965-995 with lines 242-245: the certificate is fetched and stored,
\* or with noWait the instructions are logged; an error is logged on the
\* current step by command.Run
ImportCertificate(o, certOutcome, cur, iter) ==
  IF ~o.NoWait
  THEN IF certOutcome = "certificateFailed"
       THEN Did(<<LogError(cur, ErrOf("ca.Certificate"), iter)>>,
                <<"importCertificate", "ca.Certificate">>, Nil, cur)
       ELSE IF certOutcome = "fileFailed"
       THEN Did(<<LogError(cur, ErrOf("tmpFile"), iter)>>,
                <<"importCertificate", "ca.Certificate">>, Nil, cur)
       ELSE IF certOutcome = "storeFailed"
       THEN Did(<<LogError(cur, ErrOf("ca.StoreCertificate"), iter)>>,
                <<"importCertificate", "ca.Certificate", "ca.StoreCertificate">>, Nil, cur)
       ELSE Did(<<Call("Successf", cur, CertMsgs.imported, iter)>>,
                <<"importCertificate", "ca.Certificate", "ca.StoreCertificate">>, Nil, cur)
  ELSE Did(<<LogError(cur, CertMsgs.instructions, iter)>>,
           <<"importCertificate", "ca.Instructions">>, Nil, cur)

\* lines 242-260: after the wait
Finish(o, isLocal, cur, certOutcome, hostsOk, summaryOk, iter) ==
  LET c == ImportCertificate(o, certOutcome, cur, iter)
      n == cur + 1
  IN IF isLocal /\ ~hostsOk
     THEN Did(c.calls \o <<NewStep(n, Steps.hosts.label, iter), Failure(n, iter)>>,
              c.ops \o <<Steps.hosts.op>>, ErrOf(Steps.hosts.op), n)
     ELSE LET hcalls == IF isLocal
                        THEN <<NewStep(n, Steps.hosts.label, iter), Call("Successf", n, Steps.hosts.done, iter)>>
                        ELSE <<>>
              hops == IF isLocal THEN <<Steps.hosts.op>> ELSE <<>>
          IN Did(c.calls \o hcalls, c.ops \o hops \o <<"printSummary">>,
                 IF summaryOk THEN Nil ELSE ErrOf("printSummary"),
                 IF isLocal THEN n ELSE cur)

\* command.Run returns after the part d
RunReturns(d) ==
  /\ sink' = sink \o d.calls
  /\ runCalls' = runCalls \o d.ops
  /\ CurrentStep' = d.cur
  /\ installResult' = IF d.err = Nil THEN ResNil ELSE ResErr(d.err)
  /\ runPc' = "returned"

\* lines 145-241, and with noWait lines 242-261: command.Run up to the call
\* of waitForInstaller, or to its return if a step fails or noWait is set
RunStart ==
  /\ runPc = "start"
  /\ \E clientOk \in BOOLEAN, env \in Envs, isLocal \in BOOLEAN :
       \E failAt \in 0..Len(RunSteps(ValidateFlags(opts, env).opts, isLocal)) :
         LET p == RunPrefix(opts, clientOk, env, isLocal, failAt)
             read == p.did.err = Nil \/ (clientOk /\ failAt > 2)
         IN /\ opts' = p.opts
            /\ clusterConfig' = IF read THEN [isLocal |-> isLocal] ELSE clusterConfig
            /\ IF p.did.err # Nil
               THEN RunReturns(p.did) /\ pc' = pc
               ELSE IF WaitsForInstaller(p.opts)
               THEN /\ sink' = sink \o p.did.calls
                    /\ runCalls' = runCalls \o p.did.ops \o <<"waitForInstaller">>
                    /\ CurrentStep' = p.did.cur
                    /\ installResult' = installResult
                    /\ runPc' = "wait"
                    /\ pc' = "start"
               ELSE /\ pc' = pc
                    /\ \E certOutcome \in CertOutcomes, hostsOk \in BOOLEAN, summaryOk \in BOOLEAN :
                         LET f == Finish(p.opts, isLocal, p.did.cur, certOutcome, hostsOk,
                                         summaryOk, 0)
                         IN RunReturns(Did(p.did.calls \o f.calls, p.did.ops \o f.ops,
                                           f.err, f.cur))
  /\ UNCHANGED <<currentDesc, errorOccured, timeout, result, preSample, samples, sleeps>>
  /\ UNCHANGED testVars
  /\ UNCHANGED uiVars
  /\ UNCHANGED mkVars

\* lines 237-261: waitForInstaller has returned; its error is returned, or
\* the certificate is imported and the summary printed
RunFinish ==
  /\ runPc = "wait"
  /\ pc = "done"
  /\ IF result.kind = "error"
     THEN RunReturns(Did(<<>>, <<>>, result.msg, CurrentStep))
     ELSE \E certOutcome \in CertOutcomes, hostsOk \in BOOLEAN, summaryOk \in BOOLEAN :
            RunReturns(Finish(opts, clusterConfig.isLocal, CurrentStep, certOutcome,
                              hostsOk, summaryOk, Len(samples) + 1))
  /\ UNCHANGED <<pc, opts, currentDesc, errorOccured, timeout, result, preSample,
                 samples, sleeps, clusterConfig>>
  /\ UNCHANGED testVars
  /\ UNCHANGED uiVars
  /\ UNCHANGED mkVars

\* --timeout (a positive one arms the timer of line 883) and --noWait, and
\* the three kinds of --domain, --tlsKey, --tlsCert: none, all, and the
\* domain alone

InstallInit ==
  /\ pc = "idle"
  /\ opts \in {InstallOpts(t, nw, Chars("1.3.0"), d[1], d[2], d[3], "") :
                 t \in {1}, nw \in BOOLEAN,
                 d \in {<<localDomain, "", "">>, <<"example.com", "key", "cert">>,
                        <<"example.com", "", "">>}}
  /\ CurrentStep = 0
  /\ currentDesc = <<>>
  /\ errorOccured = FALSE
  /\ timeout = "nil"
  /\ result = ResNone
  /\ preSample = <<>>
  /\ samples = <<>>
  /\ sleeps = 0
  /\ sink = <<>>
  /\ TestIdle
  /\ UiIdle
  /\ MkIdle
  /\ runPc = "start"
  /\ clusterConfig = [isLocal |-> FALSE]
  /\ runCalls = <<>>
  /\ installResult = ResNone

InstallNext ==
  \/ RunStart
  \/ Begin
  \/ TimerFires
  \/ DeadlineExceeded
  \/ Poll
  \/ RunFinish

SpecInstall == InstallInit /\ [][InstallNext]_vars

\* ------------------------------------------ AsyncUI (src/pkg/asyncui/asyncui.go)

ProcessEvents == {"ProcessRunning", "ProcessStart", "ProcessFinished", "ProcessExecutionFailure"}
Components ==
  {[Name |-> "", Status |-> ""],
   [Name |-> "istio", Status |-> "Installed"],
   [Name |-> "istio", Status |-> "Error"]}

\* deployment.ProcessUpdate: the updates of a phase (no component) with each
\* event, and the updates of a component, taken with the events that end a
\* process and the phase that installs components
ProcessUpdates ==
  {u \in [Event : ProcessEvents, Phase : InstallationPhases, Component : Components] :
     u.Component.Name # "" =>
       /\ u.Phase = "InstallComponents"
       /\ u.Event \in {"ProcessFinished", "ProcessExecutionFailure"}}

\* lines 88-98: the message of a phase's major step
StepMsg(phase) ==
  CASE phase = "InstallPreRequisites" -> <<"Installing pre-requisites">>
    [] phase = "UninstallPreRequisites" -> <<"Uninstalling pre-requisites">>
    [] phase = "InstallComponents" -> <<"Installing Kyma">>
    [] phase = "UninstallComponents" -> <<"Uninstalling Kyma">>
    [] OTHER -> <<>>

\* lines 85, 105, 121, 128: the errors of the rendering
ErrStartExists(phase) ==
  <<"Illegal state: start-step for installation phase '", phase, "' already exists">>
ErrNoMajorStep(phase) ==
  <<"Illegal state: major step for installation phase '", phase, "' does not exist">>
ErrPhaseFailed(phase, event) == <<"Installation phase '", phase, "' failed: ", event>>
ErrComponentFailed(name) == <<"Installation of component '", name, "' failed">>
ComponentLabel(name) == <<"Installing component '", name, "'">>

\* what the rendering of one update does: the calls on steps, the table of
\* ongoing steps after it, the number of steps created so far and the error
\* returned
Rendered(calls, ongoing, steps, err) ==
  [calls |-> calls, ongoingSteps |-> ongoing, steps |-> steps, err |-> err]

\* (variant: the table is not consulted)
StartExists_Never(u, ongoing) == FALSE

\* line 84: the phase has an entry in the table (0: no entry)
StartExists(u, ongoing) == ongoing[u.Phase] # 0

\* lines 83-101
RenderStartEvent(u, ongoing, steps, n) ==
  IF StartExists(u, ongoing)
  THEN Rendered(<<>>, ongoing, steps, ErrStartExists(u.Phase))
  ELSE Rendered(<<NewStep(steps + 1, StepMsg(u.Phase), n)>>,
                [ongoing EXCEPT ![u.Phase] = steps + 1], steps + 1, Nil)

\* (variant: the table is not consulted)
StopMissing_Never(u, ongoing) == FALSE

\* line 104: the phase has no entry in the table
StopMissing(u, ongoing) == ongoing[u.Phase] = 0

\* (variant: every event of a phase counts as its success)
PhaseFinished_Always(u) == TRUE

\* line 114
PhaseFinished(u) == u.Event = "ProcessFinished"

\* lines 103-132
RenderStopEvent(u, ongoing, steps, n) ==
  IF StopMissing(u, ongoing)
  THEN Rendered(<<>>, ongoing, steps, ErrNoMajorStep(u.Phase))
  ELSE IF u.Component.Name = ""
  THEN IF PhaseFinished(u)
       THEN Rendered(<<Success(ongoing[u.Phase], n)>>, ongoing, steps, Nil)
       ELSE Rendered(<<Failure(ongoing[u.Phase], n)>>, ongoing, steps,
                     ErrPhaseFailed(u.Phase, u.Event))
  ELSE IF u.Component.Status = "Error"
  THEN Rendered(<<NewStep(steps + 1, ComponentLabel(u.Component.Name), n), Failure(steps + 1, n)>>,
                ongoing, steps + 1, ErrComponentFailed(u.Component.Name))
  ELSE Rendered(<<NewStep(steps + 1, ComponentLabel(u.Component.Name), n), Success(steps + 1, n)>>,
                ongoing, steps + 1, Nil)

\* lines 45-57: the switch of the rendering goroutine on the n-th update
RenderEvent(u, ongoing, steps, n) ==
  CASE u.Event = "ProcessRunning" -> Rendered(<<>>, ongoing, steps, Nil)
    [] u.Event = "ProcessStart" -> RenderStartEvent(u, ongoing, steps, n)
    [] OTHER -> RenderStopEvent(u, ongoing, steps, n)

\* line 65: the error is sent on the Errors channel
SendsError(err, errors) == err # Nil /\ errors # "nil"

\* (variant: the flag is not consulted)
AlreadyStopped_Never(u) == FALSE

\* line 75
AlreadyStopped(u) == u.stopped

OthersIdle ==
  /\ pc = "idle"
  /\ opts = [Timeout |-> 0]
  /\ CurrentStep = 0
  /\ currentDesc = <<>>
  /\ errorOccured = FALSE
  /\ timeout = "nil"
  /\ result = ResNone
  /\ preSample = <<>>
  /\ samples = <<>>
  /\ sleeps = 0
  /\ sink = <<>>
  /\ TestIdle
  /\ RunIdle

UiInit ==
  /\ ui \in {NewAsyncUI(e) : e \in {"nil", "chan"}}
  /\ renderer = NoRenderer
  /\ stopPc = [s \in Stoppers |-> "idle"]
  /\ updateLog = <<>>
  /\ uiSink = <<>>
  /\ uiErrors = <<>>
  /\ OthersIdle
  /\ MkIdle

\* lines 35-62: Start makes the channel and the context and starts the
\* rendering goroutine, which waits for an update; the caller starts an
\* AsyncUI once
Start ==
  /\ ui.panic = ""
  /\ renderer.pc = "none"
  /\ ui' = [ui EXCEPT !.updates = "open", !.cancelled = FALSE]
  /\ renderer' = [renderer EXCEPT !.pc = "range"]
  /\ UNCHANGED <<stopPc, updateLog, uiSink, uiErrors>>
  /\ UNCHANGED <<installVars, testVars, mkVars>>

\* lines 44-57: a sender hands an update to the rendering goroutine, which
\* renders it and then sends the error, if it is to be sent
Update ==
  /\ ui.panic = ""
  /\ ui.updates = "open"
  /\ renderer.pc = "range"
  /\ Len(updateLog) < MaxUpdates
  /\ \E u \in ProcessUpdates :
       LET n == Len(updateLog) + 1
           r == RenderEvent(u, renderer.ongoingSteps, renderer.steps, n)
           sends == SendsError(r.err, ui.Errors)
       IN /\ updateLog' = Append(updateLog, [update |-> u, err |-> r.err, done |-> ~sends])
          /\ uiSink' = uiSink \o r.calls
          /\ renderer' = [pc |-> IF sends THEN "sendError" ELSE "range",
                          ongoingSteps |-> r.ongoingSteps, steps |-> r.steps,
                          err |-> IF sends THEN r.err ELSE Nil]
  /\ UNCHANGED <<ui, stopPc, uiErrors>>
  /\ UNCHANGED <<installVars, testVars, mkVars>>

\* line 66: the send on the Errors channel completes, and the goroutine
\* waits for the next update
ErrorSent ==
  /\ ui.panic = ""
  /\ renderer.pc = "sendError"
  /\ uiErrors' = Append(uiErrors, renderer.err)
  /\ renderer' = [renderer EXCEPT !.pc = "range", !.err = Nil]
  /\ updateLog' = [updateLog EXCEPT ![Len(updateLog)].done = TRUE]
  /\ UNCHANGED <<ui, stopPc, uiSink>>
  /\ UNCHANGED <<installVars, testVars, mkVars>>

\* (variant: the goroutine ends without cancelling the context)
Cancel_Forgotten(u) == u

\* line 42: ui.cancel()
Cancel(u) == [u EXCEPT !.cancelled = TRUE]

\* lines 42, 44, 58: the range over the closed channel ends and the deferred
\* cancel runs
RangeEnds ==
  /\ ui.panic = ""
  /\ renderer.pc = "range"
  /\ ui.updates = "closed"
  /\ renderer' = [renderer EXCEPT !.pc = "done"]
  /\ ui' = Cancel(ui)
  /\ UNCHANGED <<stopPc, updateLog, uiSink, uiErrors>>
  /\ UNCHANGED <<installVars, testVars, mkVars>>

\* line 72: a goroutine calls Stop and waits for the mutex
StopCalled ==
  /\ ui.panic = ""
  /\ \E s \in Stoppers :
       /\ stopPc[s] = "idle"
       /\ stopPc' = [stopPc EXCEPT ![s] = "Lock"]
  /\ UNCHANGED <<ui, renderer, updateLog, uiSink, uiErrors>>
  /\ UNCHANGED <<installVars, testVars, mkVars>>

\* lines 72-79: with the mutex, Stop returns if the flag is set, else closes
\* the channel (a nil or closed channel panics) and sets the flag
StopLocked ==
  /\ ui.panic = ""
  /\ ui.mu = 0
  /\ \E s \in Stoppers :
       /\ stopPc[s] = "Lock"
       /\ IF AlreadyStopped(ui)
          THEN /\ stopPc' = [stopPc EXCEPT ![s] = "returned"]
               /\ ui' = ui
          ELSE IF ui.updates = "nil"
          THEN /\ stopPc' = [stopPc EXCEPT ![s] = "panic"]
               /\ ui' = [ui EXCEPT !.panic = "close of nil channel"]
          ELSE IF ui.updates = "closed"
          THEN /\ stopPc' = [stopPc EXCEPT ![s] = "panic"]
               /\ ui' = [ui EXCEPT !.panic = "close of closed channel", !.closes = @ + 1]
          ELSE /\ stopPc' = [stopPc EXCEPT ![s] = "Done"]
               /\ ui' = [ui EXCEPT !.updates = "closed", !.closes = @ + 1,
                                   !.stopped = TRUE, !.mu = s]
  /\ UNCHANGED <<renderer, updateLog, uiSink, uiErrors>>
  /\ UNCHANGED <<installVars, testVars, mkVars>>

\* (variant: Stop does not wait for the context)
ContextDone_NoWait(u) == TRUE

\* line 80: the context is cancelled
ContextDone(u) == u.cancelled

\* lines 80-81, 73: the context is done, Stop unlocks the mutex and returns
StopReturns ==
  /\ ui.panic = ""
  /\ \E s \in Stoppers :
       /\ stopPc[s] = "Done"
       /\ ContextDone(ui)
       /\ stopPc' = [stopPc EXCEPT ![s] = "returned"]
       /\ ui' = [ui EXCEPT !.mu = 0]
  /\ UNCHANGED <<renderer, updateLog, uiSink, uiErrors>>
  /\ UNCHANGED <<installVars, testVars, mkVars>>

UiNext ==
  \/ Start
  \/ Update
  \/ ErrorSent
  \/ RangeEnds
  \/ StopCalled
  \/ StopLocked
  \/ StopReturns

SpecUi == UiInit /\ [][UiNext]_vars

\* the goroutines run: the rendering goroutine leaves the range when the
\* channel is closed, a caller of Stop gets the free mutex and goes on when
\* the context is done; and a receiver takes every error sent on Errors
SpecUiLive ==
  /\ UiInit
  /\ [][UiNext]_vars
  /\ WF_vars(RangeEnds)
  /\ WF_vars(StopLocked)
  /\ WF_vars(StopReturns)
  /\ WF_vars(ErrorSent)

\* --------------- provision minikube (src/cmd/kyma/provision/minikube/cmd.go)

\* lines 24, 31-40
vmDriverHyperv == "hyperv"
drivers ==
  {"virtualbox", "vmwarefusion", "kvm", "xhyve", vmDriverHyperv, "hyperkit", "kvm2", "none"}

\* --vm-driver and --hypervVirtualSwitch, and the non-interactive mode
VMDrivers == {"virtualbox", vmDriverHyperv, "docker"}
Switches == {"", "external"}

\* what `minikube status --format {{.Host}}` prints, in words and blanks:
\* nothing or an empty line when there is no cluster, else the host's state
StatusTexts == {<<>>, <<"\n">>, <<"Running", "\n">>, <<" ", "Stopped">>}

\* strings.TrimSpace
IsSpace(c) == c \in {" ", "\t", "\n", "\r"}
RECURSIVE TrimLeft(_)
TrimLeft(s) == IF s = <<>> THEN s ELSE IF IsSpace(Head(s)) THEN TrimLeft(Tail(s)) ELSE s
RECURSIVE TrimRight(_)
TrimRight(s) ==
  IF s = <<>> THEN s
  ELSE IF IsSpace(s[Len(s)]) THEN TrimRight(SubSeq(s, 1, Len(s) - 1)) ELSE s
TrimSpace(s) == TrimRight(TrimLeft(s))

\* line 41
ErrMinikubeRunning == <<"Minikube already running">>

\* lines 170-190: checkRequirements on step stepNo, with the outcome of
\* minikube.CheckVersion ("ok", "warning", "error")
CheckRequirements(o, version, stepNo) ==
  IF o.VMDriver \notin drivers
  THEN Did(<<Failure(stepNo, 0)>>, <<>>,
           <<"Specified VMDriver '", o.VMDriver, "' is not supported by Minikube">>, stepNo)
  ELSE IF o.VMDriver = vmDriverHyperv /\ o.HypervVirtualSwitch = ""
  THEN Did(<<Failure(stepNo, 0)>>, <<>>,
           <<"Specified VMDriver '", vmDriverHyperv, "' requires the --hypervVirtualSwitch option">>,
           stepNo)
  ELSE IF version = "error"
  THEN Did(<<Failure(stepNo, 0)>>, <<"minikube.CheckVersion">>, ErrOf("minikube.CheckVersion"), stepNo)
  ELSE IF version = "warning"
  THEN Did(<<LogError(stepNo, <<"versionWarning">>, 0)>>, <<"minikube.CheckVersion">>, Nil, stepNo)
  ELSE Did(<<>>, <<"minikube.CheckVersion">>, Nil, stepNo)

\* an instruction of command.Run: a new step, a status line, an action
\* (failure: whether s.Failure() is called when it fails), a success
Ins(kind, text, op, failure) == [kind |-> kind, text |-> text, op |-> op, failure |-> failure]

\* lines 105-166: command.Run after the status check
MkProgram ==
  <<Ins("NewStep", <<"Initializing Minikube config">>, "", FALSE),
    Ins("Do", <<>>, "initializeMinikubeConfig", TRUE),
    Ins("Successf", <<"Minikube config initialized">>, "", FALSE),
    Ins("NewStep", <<"Create Minikube instance">>, "", FALSE),
    Ins("Status", <<"Start Minikube">>, "", FALSE),
    Ins("Do", <<>>, "startMinikube", TRUE),
    Ins("Status", <<"Wait for Minikube to be up and running">>, "", FALSE),
    Ins("Do", <<>>, "waitForMinikubeToBeUp", TRUE),
    Ins("Do", <<>>, "kube.NewFromConfig", FALSE),
    Ins("Status", <<"Create default cluster role">>, "", FALSE),
    Ins("Do", <<>>, "createClusterRoleBinding", TRUE),
    Ins("Status", <<"Wait for kube-dns to be up and running">>, "", FALSE),
    Ins("Do", <<>>, "WaitPodStatusByLabel", TRUE),
    Ins("Successf", <<"Minikube up and running">>, "", FALSE),
    Ins("NewStep", <<"Adjusting Minikube cluster">>, "", FALSE),
    Ins("Status", <<"Increase fs.inotify.max_user_instances">>, "", FALSE),
    Ins("Do", <<>>, "increaseFsInotifyMaxUserInstances", TRUE),
    Ins("Status", <<"Enable metrics server">>, "", FALSE),
    Ins("Do", <<>>, "enableMetricsServer", TRUE),
    Ins("Successf", <<"Adjustments finished">>, "", FALSE),
    Ins("NewStep", <<"Creating cluster info ConfigMap">>, "", FALSE),
    Ins("Do", <<>>, "createClusterInfoConfigMap", TRUE),
    Ins("Successf", <<"ConfigMap created">>, "", FALSE),
    Ins("Do", <<>>, "printSummary", FALSE)>>

\* the number of actions of the program
MkActions == Len(SelectSeq(MkProgram, LAMBDA i : i.kind = "Do"))

\* the instructions are run in order; the action at position failAt among
\* the actions (0: none) fails and its error ends the run
RECURSIVE MkExec(_, _, _)
MkExec(prog, failAt, cur) ==
  IF prog = <<>> THEN Did(<<>>, <<>>, Nil, cur)
  ELSE LET i == Head(prog)
       IN IF i.kind = "Do" /\ failAt = 1
          THEN Did(IF i.failure THEN <<Failure(cur, 0)>> ELSE <<>>, <<i.op>>, ErrOf(i.op), cur)
          ELSE LET n == IF i.kind = "NewStep" THEN cur + 1 ELSE cur
                   r == MkExec(Tail(prog), IF i.kind = "Do" THEN failAt - 1 ELSE failAt, n)
                   calls == CASE i.kind = "NewStep" -> <<NewStep(n, i.text, 0)>>
                              [] i.kind = "Status" -> <<Call("Status", n, i.text, 0)>>
                              [] i.kind = "Successf" -> <<Call("Successf", n, i.text, 0)>>
                              [] OTHER -> <<>>
               IN Did(calls \o r.calls, (IF i.kind = "Do" THEN <<i.op>> ELSE <<>>) \o r.ops,
                      r.err, r.cur)

\* (variant: the cluster is deleted whatever the answer)
Deletes_Always(o, answer) == TRUE

\* line 200
Deletes(o, answer) == o.NonInteractive \/ answer

\* lines 200-209: checkIfMinikubeIsInitialized once the status is not empty
\* and the answer, if asked for, is known; deleteOk: `minikube delete` works
RemoveExisting(o, answer, deleteOk) ==
  IF Deletes(o, answer)
  THEN Did(<<>>, <<"delete">>, IF deleteOk THEN Nil ELSE ErrOf("minikube delete"), 0)
  ELSE Did(<<>>, <<>>, ErrMinikubeRunning, 0)

\* (variant: only nil lets the command go on)
GoesOn_NilOnly(err) == err = Nil

\* lines 95-98: the errors after which command.Run goes on
GoesOn(err) == err \in {ErrMinikubeRunning, Nil}

\* lines 95-168: command.Run from the return of checkIfMinikubeIsInitialized
\* (on step stepNo) to its own return
MkRest(checked, stepNo, failAt) ==
  IF ~GoesOn(checked.err)
  THEN Did(<<Failure(stepNo, 0)>>, checked.ops, checked.err, stepNo)
  ELSE LET r == MkExec(MkProgram, failAt, stepNo)
       IN Did(<<Call("Successf", stepNo, <<"Minikube status verified">>, 0)>> \o r.calls,
              checked.ops \o r.ops, r.err, r.cur)

\* command.Run returns after the calls and the part d
MkReturns(mk, calls, d) ==
  /\ mkSink' = mkSink \o calls \o d.calls
  /\ minikube' = [mk EXCEPT !.pc = "returned", !.cmds = @ \o d.ops,
                            !.result = IF d.err = Nil THEN ResNil ELSE ResErr(d.err)]

\* lines 84-103, 192-198: command.Run up to the prompt of
\* checkIfMinikubeIsInitialized, or, when nothing is asked, to its return
MkRunStart ==
  /\ minikube.pc = "start"
  /\ \E version \in {"ok", "warning", "error"}, statusText \in StatusTexts :
       LET req == CheckRequirements(minikube.opts, version, 1)
           before == <<NewStep(1, <<"Checking requirements">>, 0)>> \o req.calls
           calls == before
                    \o <<Call("Successf", 1, <<"Requirements verified">>, 0),
                         Call("LogInfof", 1, <<"Preparing Minikube using vm-driver '",
                                               minikube.opts.VMDriver, "'">>, 0),
                         NewStep(2, <<"Checking Minikube status">>, 0)>>
           mk == [minikube EXCEPT !.cmds = req.ops \o <<"status">>, !.statusText = statusText]
       IN IF req.err # Nil
          THEN MkReturns(minikube, before \o <<Failure(1, 0)>>, Did(<<>>, req.ops, req.err, 1))
          ELSE IF TrimSpace(statusText) = <<>>
          THEN \E failAt \in 0..MkActions :
                 MkReturns(mk, calls, MkRest(Did(<<>>, <<>>, Nil, 2), 2, failAt))
          ELSE IF ~minikube.opts.NonInteractive
          THEN /\ mkSink' = mkSink \o calls
                              \o <<Call("PromptYesNo", 2,
                                        <<"Do you want to remove the existing Minikube cluster? ">>, 0)>>
               /\ minikube' = [mk EXCEPT !.pc = "prompt"]
          ELSE \E deleteOk \in BOOLEAN, failAt \in 0..MkActions :
                 MkReturns(mk, calls,
                           MkRest(RemoveExisting(minikube.opts, FALSE, deleteOk), 2, failAt))
  /\ UNCHANGED <<installVars, testVars, uiVars>>

\* lines 198-210, 95-168: the user has answered the prompt; the cluster is
\* deleted or not and command.Run goes on to its return
MkAnswered ==
  /\ minikube.pc = "prompt"
  /\ \E answer \in BOOLEAN, deleteOk \in BOOLEAN, failAt \in 0..MkActions :
       MkReturns([minikube EXCEPT !.answers = Append(@, answer)], <<>>,
                 MkRest(RemoveExisting(minikube.opts, answer, deleteOk), 2, failAt))
  /\ UNCHANGED <<installVars, testVars, uiVars>>

MkInit ==
  /\ minikube \in {NewMinikube("start", MkOptions(n, d, s)) :
                     n \in BOOLEAN, d \in VMDrivers, s \in Switches}
  /\ mkSink = <<>>
  /\ OthersIdle
  /\ UiIdle

MkNext ==
  \/ MkRunStart
  \/ MkAnswered

SpecMinikube == MkInit /\ [][MkNext]_vars

\* ------------------------------------------------- reading the observations

Last(seq) == seq[Len(seq)]

\* the calls made and lines printed in loop iteration k, in order
SinkAt(k) == SelectSeq(sink, LAMBDA c : c.iter = k)

\* the calls on steps (the progress sink) among them
StepOps == {"NewStep", "Success", "Failure", "LogError", "LogInfo"}
StepCallsAt(k) == SelectSeq(sink, LAMBDA c : c.iter = k /\ c.op \in StepOps)

\* the calls of one kind in the whole run
CallsOf(op) == SelectSeq(sink, LAMBDA c : c.op = op)

\* a sample whose two queries both succeeded, with the given state
Is(s, status) == s.err = Nil /\ s.status = status

\* a sample that reaches the switch on status
Handled(s) == s.err = Nil \/ IsRetriable(s.err)

\* the label of step number k
LabelOf(k) == CallsOf("NewStep")[k].text

\* the three calls of the "failed, which may be OK" report
Report(stepNo, desc, k) ==
  <<LogError(stepNo, MsgFailed(desc), k),
    LogInfo(stepNo, MsgFetchErrorLogs, k),
    LogInfo(stepNo, MsgFetchAppLogs, k)>>

\* the descriptions of the InProgress observations ss, without those equal
\* to the one before (last: the description reported before ss)
RECURSIVE Phases(_, _)
Phases(ss, last) ==
  IF ss = <<>> THEN <<>>
  ELSE IF Handled(Head(ss)) /\ Head(ss).status = "InProgress" /\ Head(ss).desc # last
       THEN <<Head(ss).desc>> \o Phases(Tail(ss), Head(ss).desc)
       ELSE Phases(Tail(ss), IF Handled(Head(ss)) /\ Head(ss).status = "InProgress"
                             THEN Head(ss).desc ELSE last)

\* whether an Error report is pending suppression after the observations ss
RECURSIVE Reported(_, _)
Reported(ss, flag) ==
  IF ss = <<>> THEN flag
  ELSE Reported(Tail(ss),
                IF ~Handled(Head(ss)) THEN flag
                ELSE IF Head(ss).status = "Error" THEN TRUE
                ELSE IF Head(ss).status = "InProgress" THEN FALSE
                ELSE flag)

PreLoopInstalled ==
  /\ Len(preSample) = 1
  /\ preSample[1].err = Nil
  /\ preSample[1].status = "Installed"

TimedOut == pc = "done" /\ result = ResErr(ErrTimeoutReached)

\* ------------------------------------------------------------------ claims

\* C1: when the state query made before the loop answers "Installed",
\* waitForInstaller has returned nil without entering the loop: the deadline
\* timer was never armed, getInstallationStatus was never called and
\* time.Sleep was never called.
C1_PreLoopInstalledReturns ==
  PreLoopInstalled =>
    /\ pc = "done"
    /\ result = ResNil
    /\ timeout = "nil"
    /\ samples = <<>>
    /\ sleeps = 0

C1_Witness == PreLoopInstalled /\ opts.Timeout > 0 /\ pc = "done"

\* C2: whenever an "Installed" state has been sampled, be it by the query
\* before the loop or by an iteration of the loop, the wait is over, the last
\* call on the sink is the Success of the current step, and it is the only
\* Success that step received.
C2_ExactlyOneTerminalSuccess ==
  (PreLoopInstalled \/ (samples # <<>> /\ Is(Last(samples), "Installed"))) =>
    /\ pc = "done"
    /\ sink # <<>>
    /\ Last(sink) = Success(CurrentStep, Len(samples))
    /\ Len(SelectSeq(sink, LAMBDA c : c.op = "Success" /\ c.step = CurrentStep)) = 1

\* the scenario of C3: the four samples, taken by getInstallationStatus
InProgressOf(desc) == [status |-> "InProgress", desc |-> desc, err |-> Nil]
Installed == [status |-> "Installed", desc |-> <<>>, err |-> Nil]
ScenarioAB == <<InProgressOf(StepA), InProgressOf(StepA), InProgressOf(StepB), Installed>>

ScenarioABRun == opts.Timeout = 0 /\ samples = ScenarioAB

\* C3 as stated: the scenario makes the sink receive start("step A") for
\* the first sample, nothing for the second, success of "step A" and
\* start("step B") for the third, and for the fourth the success of
\* "step B" followed by one more success; nil is returned.
C3_ScenarioAsStated ==
  ScenarioABRun =>
    /\ result = ResNil
    /\ StepCallsAt(1) = <<NewStep(2, StepA, 1)>>
    /\ StepCallsAt(2) = <<>>
    /\ StepCallsAt(3) = <<Success(2, 3), NewStep(3, StepB, 3)>>
    /\ Len(StepCallsAt(4)) = 2
    /\ StepCallsAt(4)[1] = Success(3, 4)
    /\ StepCallsAt(4)[2].op = "Success"

\* C3 (amended): the scenario makes the sink receive, for the first sample,
\* the success of the "Waiting for installation to start" step followed by
\* start("step A"), nothing for the second, success of "step A" followed by
\* start("step B") for the third and the single success of "step B" for the
\* fourth; nil is returned and nothing else is called.
C3_Scenario ==
  ScenarioABRun =>
    /\ pc = "done"
    /\ result = ResNil
    /\ sink = <<NewStep(1, WaitingLabel, 0),
                Success(1, 1), NewStep(2, StepA, 1),
                Success(2, 3), NewStep(3, StepB, 3),
                Success(3, 4)>>

C3_Witness == ScenarioABRun /\ pc = "done"

\* C4: of two consecutive InProgress samples with the same description the
\* second produces no call and no output at all; and the steps opened in the
\* loop are, in order, the descriptions of the InProgress observations with
\* the repetitions left out, while calls appear in the order of the samples.
C4_Deduplication ==
  /\ \A i \in 2..Len(samples) :
       (/\ Is(samples[i - 1], "InProgress")
        /\ Is(samples[i], "InProgress")
        /\ samples[i].desc = samples[i - 1].desc) => SinkAt(i) = <<>>
  /\ LET opened == SelectSeq(sink, LAMBDA c : c.op = "NewStep" /\ c.iter >= 1)
         phases == Phases(samples, <<>>)
     IN  /\ Len(opened) = Len(phases)
         /\ \A k \in 1..Len(opened) : opened[k].text = Sprintf(phases[k])
  /\ \A j \in 1..(Len(sink) - 1) : sink[j].iter <= sink[j + 1].iter

C4_Witness ==
  /\ Len(samples) >= 3
  /\ Is(samples[1], "InProgress") /\ samples[1].desc = StepA
  /\ Is(samples[2], "InProgress") /\ samples[2].desc = StepA
  /\ Is(samples[3], "InProgress") /\ samples[3].desc = StepB

\* the description last reported before sample i
LastReported(i) ==
  LET phases == Phases(SubSeq(samples, 1, i - 1), <<>>)
  IN  IF phases = <<>> THEN <<>> ELSE Last(phases)

\* C5: an InProgress sample whose description differs from the last reported
\* one makes exactly two calls: Success on the current step, then the start
\* of one new step labelled with the new description; the description is
\* then the last reported one.
C5_PhaseChange ==
  \A i \in 1..Len(samples) :
    (Is(samples[i], "InProgress") /\ samples[i].desc # LastReported(i)) =>
      /\ Len(SinkAt(i)) = 2
      /\ SinkAt(i)[1].op = "Success"
      /\ SinkAt(i)[2] = NewStep(SinkAt(i)[1].step + 1, samples[i].desc, i)
      /\ LastReported(i + 1) = samples[i].desc
      /\ i = Len(samples) => currentDesc = samples[i].desc /\ CurrentStep = SinkAt(i)[2].step

\* C6: an Error sample that directly follows an Error sample produces no
\* call and no output; an Error sample produces either nothing or the one
\* "failed, which may be OK" report, the report exactly when no Error was
\* observed since the start or since the last InProgress observation; and
\* the iteration of an Error sample never returns: after it the loop goes on,
\* and the wait can then end only in a later iteration, by the deadline.
C6_ErrorSuppression ==
  \A i \in 1..Len(samples) :
    Is(samples[i], "Error") =>
      /\ (i > 1 /\ Is(samples[i - 1], "Error")) => SinkAt(i) = <<>>
      /\ \E c \in 1..CurrentStep :
           SinkAt(i) = IF Reported(SubSeq(samples, 1, i - 1), FALSE)
                       THEN <<>>
                       ELSE Report(c, samples[i].desc, i)
      /\ sleeps >= i
      /\ i = Len(samples) => (pc = "loop" \/ (TimedOut /\ Last(sink).iter = i + 1))

C6_Witness ==
  /\ Len(samples) >= 3
  /\ Is(samples[1], "Error") /\ Is(samples[2], "Error") /\ Is(samples[3], "Error")
  /\ pc = "loop"

ErrorOf(desc) == [status |-> "Error", desc |-> desc, err |-> Nil]
ScenarioErrors == <<ErrorOf(StepA), ErrorOf(StepA), InProgressOf(StepA), ErrorOf(StepA)>>

\* the "failed, which may be OK" reports made so far
ErrorReports == SelectSeq(sink, LAMBDA c : c.op = "LogError" /\ c.text = MsgFailed(StepA))

\* C7: right after an InProgress observation the error-already-reported flag
\* is false; and the samples [Error, Error, InProgress, Error] produce exactly
\* two error reports, one for the first sample and one for the fourth.
C7_ErrorSuppressionReset ==
  /\ (samples # <<>> /\ Handled(Last(samples)) /\ Last(samples).status = "InProgress")
       => ~errorOccured
  /\ samples = ScenarioErrors =>
       /\ Len(ErrorReports) = 2
       /\ ErrorReports[1].iter = 1
       /\ ErrorReports[2].iter = 4
       /\ Len(SinkAt(1)) = 3 /\ Len(SinkAt(2)) = 0 /\ Len(SinkAt(4)) = 3

C7_Witness == samples = ScenarioErrors /\ pc = "loop"

Empty == [status |-> "", desc |-> <<>>, err |-> Nil]

\* the step just taken is a loop iteration that sampled s
Sampled(s) == samples' = Append(samples, s)

\* C8: a loop iteration that samples an empty status makes exactly one call,
\* the info log, changes neither the error-already-reported flag nor the last
\* reported description nor the current step, and goes on to sleep and loop;
\* and in [Error, "", Error] the second Error produces nothing.
C8_EmptyStatus ==
  /\ [][Sampled(Empty) =>
          /\ sink' = Append(sink, LogInfo(CurrentStep, MsgNoStatus, Len(samples')))
          /\ errorOccured' = errorOccured
          /\ currentDesc' = currentDesc
          /\ CurrentStep' = CurrentStep
          /\ pc' = "loop"
          /\ sleeps' = sleeps + 1]_vars
  /\ [](\A i \in 3..Len(samples) :
          (Is(samples[i - 2], "Error") /\ Is(samples[i - 1], "") /\ Is(samples[i], "Error"))
            => SinkAt(i) = <<>>)

C8_Witness ==
  /\ Len(samples) = 3
  /\ Is(samples[1], "Error") /\ Is(samples[2], "") /\ Is(samples[3], "Error")
  /\ errorOccured

\* C9: an iteration that starts with the deadline elapsed takes no sample:
\* it calls Failure on the current step, then runs the dump of the
\* installation error log (whose lines are printed when kubectl returns
\* them), then returns the timeout error, and nothing else.
C9_DeadlineHandling ==
  [][(pc = "loop" /\ timeout = "fired") =>
       /\ samples' = samples
       /\ pc' = "done"
       /\ result' = ResErr(ErrTimeoutReached)
       /\ sleeps' = sleeps
       /\ \E dump \in {<<>>, <<Println(MsgErrorLog, Len(samples) + 1)>>} :
            sink' = sink \o <<Failure(CurrentStep, Len(samples) + 1),
                              QueryErrorLog(Len(samples) + 1)>> \o dump]_vars

C9_Witness ==
  /\ TimedOut
  /\ Len(samples) >= 2
  /\ Last(sink).op = "Println"

\* C10 as stated: a wait that ended by the deadline before any iteration of
\* the loop sampled has never queried the installation status.
C10_NeverSampledAsStated ==
  (TimedOut /\ samples = <<>>) => preSample = <<>>

\* C10 (amended): the timer is armed only after the state query made before
\* the loop; if the deadline has elapsed when the first iteration starts,
\* that iteration returns the timeout error without calling
\* getInstallationStatus, so that this one query is the only sample taken.
C10_DeadlinePrecedence ==
  /\ [](timeout # "nil" => (Len(preSample) = 1 /\ ~PreLoopInstalled))
  /\ [][(pc = "loop" /\ timeout = "fired" /\ samples = <<>>) =>
          (samples' = <<>> /\ preSample' = preSample /\ TimedOut')]_vars

C10_Witness == TimedOut /\ samples = <<>> /\ Len(preSample) = 1

\* the wait has ended in loop iteration i, the one that took the last sample
EndedBySample == pc \in {"done", "exited"} /\ samples # <<>> /\ ~TimedOut

\* C11: with a timeout option that is not positive the timer is never
\* armed and the timeout error is never returned; the loop is left only by
\* an iteration whose sample is Installed (nil is returned), whose sampling
\* failed fatally (that error is returned) or whose status is unexpected
\* (the process exits).
C11_NoDeadline ==
  opts.Timeout <= 0 =>
    /\ timeout = "nil"
    /\ ~TimedOut
    /\ (pc \in {"done", "exited"} /\ samples # <<>>) =>
         LET s == Last(samples)
         IN  \/ pc = "done" /\ Handled(s) /\ s.status = "Installed" /\ result = ResNil
             \/ pc = "done" /\ ~Handled(s) /\ result = ResErr(s.err)
             \/ pc = "exited" /\ Handled(s) /\ s.status = "Unknown"
    /\ (pc = "loop" /\ samples # <<>>) =>
         (Handled(Last(samples)) /\ Last(samples).status \in {"Error", "InProgress", ""})

C11_Witness ==
  /\ opts.Timeout <= 0
  /\ Len(samples) = MaxSamples
  /\ pc = "loop"
  /\ sleeps = MaxSamples

\* err.Error() names a transport timeout
IsTimedOutMessage(err) == Contains(err, <<"timed", "out">>)

\* C12: an iteration whose sampling fails with an error whose message
\* contains "timed out" logs the recoverable warning and does not end the
\* wait: the loop goes on to sleep, and the wait can end only in a later
\* iteration.
C12_TransientSamplingFailure ==
  \A i \in 1..Len(samples) :
    (samples[i].err # Nil /\ IsTimedOutMessage(samples[i].err)) =>
      /\ \E c \in 1..CurrentStep : LogError(c, MsgRetry, i) \in {sink[k] : k \in 1..Len(sink)}
      /\ sleeps >= i
      /\ i = Len(samples) => (pc = "loop" \/ (TimedOut /\ Last(sink).iter = i + 1))

\* err.Error() of a sampling failure that is not a transport timeout
IsFatalMessage(err) == err # Nil /\ ~IsTimedOutMessage(err)

\* C13: a sampling error that is not a transport timeout ends the wait at
\* once with that error as the result: from the query before the loop no
\* loop iteration follows, and in the loop the failing sample is the last one
\* and produces no call.
C13_FatalSamplingFailure ==
  /\ (Len(preSample) = 1 /\ IsFatalMessage(preSample[1].err)) =>
       (pc = "done" /\ result = ResErr(preSample[1].err) /\ samples = <<>> /\ sleeps = 0)
  /\ \A i \in 1..Len(samples) :
       IsFatalMessage(samples[i].err) =>
         /\ i = Len(samples)
         /\ pc = "done"
         /\ result = ResErr(samples[i].err)
         /\ SinkAt(i) = <<>>
         /\ sleeps = i - 1

C13_Witness ==
  /\ Len(samples) >= 2
  /\ Last(samples).err = ErrRefused
  /\ Last(samples).status = "InProgress"
  /\ pc = "done"

Expected == {"Installed", "Error", "InProgress", ""}

\* C14 as stated: every sampled status outside Installed, Error, InProgress
\* and empty, the one of the query before the loop included, ends the wait
\* by the exit of the process, with the current step marked failed and the
\* status printed, and no sample after it.
C14_UnexpectedStatusAsStated ==
  /\ (Len(preSample) = 1 /\ preSample[1].err = Nil /\ preSample[1].status \notin Expected) =>
       (pc = "exited" /\ samples = <<>>)
  /\ \A i \in 1..Len(samples) :
       samples[i].status \notin Expected =>
         (i = Len(samples) /\ pc = "exited" /\ result = ResNone)

\* C14 (amended): a status outside Installed, Error, InProgress and empty
\* that a loop iteration samples without a fatal sampling error makes
\* waitForInstaller call Failure on the current step, print the status and
\* exit the process: nothing is returned and no sample follows.  (The state
\* query before the loop only tests for Installed; any other answer, an
\* unexpected one included, enters the loop.)
C14_UnexpectedStatus ==
  /\ \A i \in 1..Len(samples) :
       (Handled(samples[i]) /\ samples[i].status \notin Expected) =>
         /\ i = Len(samples)
         /\ pc = "exited"
         /\ result = ResNone
         /\ Len(sink) >= 2
         /\ sink[Len(sink) - 1] = Failure(CurrentStep, i)
         /\ Last(sink) = Println(MsgUnexpected(samples[i].status), i)
         /\ sleeps = i - 1
  /\ (pc = "exited") => (samples # <<>> /\ Last(samples).status \notin Expected)
  /\ (Len(preSample) = 1 /\ preSample[1].err = Nil /\ preSample[1].status \notin Expected) =>
       pc # "start" /\ (samples = <<>> => pc \in {"loop", "done"})

C14_Witness ==
  /\ pc = "exited"
  /\ Len(samples) >= 2
  /\ Last(samples).err = Nil

\* C15: whenever the wait has ended unsuccessfully (an error was returned or
\* the process exited), Failure has been called on the current step and at
\* least one diagnostic line has been logged or printed.
C15_VisibleFailure ==
  ((pc = "done" /\ result.kind = "error") \/ pc = "exited") =>
    /\ \E k \in 1..Len(sink) : sink[k].op = "Failure" /\ sink[k].step = CurrentStep
    /\ \E k \in 1..Len(sink) : sink[k].op \in {"LogError", "LogInfo", "Println"}

\* ------------------------------------------- claims on the test-suite watcher

\* the calls the wait step received while event number k was handled
WCallsAt(k) == SelectSeq(waitStep, LAMBDA c : c.ev = k)

\* the terminal transitions among the calls cs
TerminalOps == {"Success", "Successf", "Failure", "Failuref"}
Terminals(cs) == SelectSeq(cs, LAMBDA c : c.op \in TerminalOps)

\* an Added or Modified event that carries a test suite
CarriesSuite(e) ==
  e.type \in {"ADDED", "MODIFIED"} /\ e.object.kind = "ClusterTestSuite"

\* a true condition of type Succeeded, Error or Failed
IsTerminal(cond) ==
  cond.Status = "True" /\ cond.Type \in {"Succeeded", "Error", "Failed"}

\* the position of the first terminal condition of conds, 0 if there is none
FirstTerminal(conds) ==
  IF \E i \in 1..Len(conds) : IsTerminal(conds[i])
  THEN CHOOSE i \in 1..Len(conds) :
         IsTerminal(conds[i]) /\ \A j \in 1..(i - 1) : ~IsTerminal(conds[j])
  ELSE 0

IsNotFound(err) == err.kind = "error" /\ err.reason = "NotFound"

\* C16 as stated: once the list has shown the suite to be absent, the wait
\* never waits for events, and when it has returned the result is NotFound,
\* no watch stream was opened, no event was consumed and the exit condition
\* made no call.
C16_AbsentSuiteAsStated ==
  store = "absent" =>
    /\ testPc \in {"sync", "returned"}
    /\ ~watchOpened
    /\ events = <<>>
    /\ testPc = "returned" =>
         /\ IsNotFound(waitResult)
         /\ waitStep = <<WCall("NewStep", WaitStepLabel, 0), WCall("Failure", <<>>, 0)>>

\* C16 (amended): once the list has shown the suite to be absent, the wait
\* never waits for events: no event is consumed from the watch and the exit
\* condition is never invoked; when the wait has returned, the result is the
\* NotFound error of the precondition, or, with a timeout > 0 that expired
\* before the cache sync was seen, the sync error.  (The watch stream itself
\* may have been opened by the informer in the meantime.)
C16_AbsentSuite ==
  store = "absent" =>
    /\ testPc \in {"sync", "returned"}
    /\ events = <<>>
    /\ testPc = "returned" =>
         /\ \/ waitResult = ErrNotFound(SuiteName)
            \/ (testOpts.Timeout > 0 /\ ctx = "expired" /\ waitResult = ErrSync)
         /\ runResult = waitResult
         /\ waitStep = <<WCall("NewStep", WaitStepLabel, 0), WCall("Failure", <<>>, 0)>>

C16_Witness ==
  /\ store = "absent"
  /\ testPc = "returned"
  /\ IsNotFound(waitResult)
  /\ watchOpened

\* the scenario of C17: two Modified events on suite "demo", the first with
\* no condition, the second with the one condition Succeeded = True
ScenarioDemo ==
  /\ testOpts.Timeout = 0
  /\ Len(events) = 2
  /\ \A k \in 1..2 :
       /\ events[k].type = "MODIFIED"
       /\ events[k].object.kind = "ClusterTestSuite"
       /\ events[k].object.Name = "demo"
  /\ events[1].object.Conditions = <<>>
  /\ events[2].object.Conditions = <<[Type |-> "Succeeded", Status |-> "True"]>>

\* C17: in the scenario the wait has returned nil and the wait step has
\* received exactly one terminal transition, the success reported for the
\* second event.
C17_ScenarioDemo ==
  ScenarioDemo =>
    /\ testPc = "returned"
    /\ waitResult = WNil
    /\ Terminals(waitStep) =
         <<WCall("Successf", <<"Test suite '", "demo", "' execution succeeded">>, 2)>>

C17_Witness == ScenarioDemo /\ testPc = "returned" /\ events[2].object.Results # <<>>

\* C18: for every Added or Modified event whose suite has a terminal
\* condition, the first such condition decides: the exit condition made as
\* its last call one Successf (Succeeded) or one Failuref (Error, Failed)
\* and no other terminal call, it made no call for any later condition, and
\* the wait ended with this event, returning nil.
C18_TerminalMapping ==
  \A k \in 1..Len(events) :
    LET conds == events[k].object.Conditions
        i == FirstTerminal(conds)
        cs == WCallsAt(k)
    IN (CarriesSuite(events[k]) /\ i > 0) =>
         /\ k = Len(events)
         /\ testPc = "returned"
         /\ waitResult = WNil
         /\ Len(cs) = i
         /\ cs[i].op = IF conds[i].Type = "Succeeded" THEN "Successf" ELSE "Failuref"
         /\ Len(Terminals(cs)) = 1

C18_Witness ==
  /\ testPc = "returned"
  /\ Len(events) = 2
  /\ events[2].type = "MODIFIED"
  /\ events[2].object.Conditions =
       <<[Type |-> "Succeeded", Status |-> "False"], [Type |-> "Failed", Status |-> "True"]>>

\* the suite of the last event ended with a terminal condition of this type
EndedWith(type) ==
  /\ events # <<>>
  /\ CarriesSuite(Last(events))
  /\ FirstTerminal(Last(events).object.Conditions) > 0
  /\ LET conds == Last(events).object.Conditions
     IN conds[FirstTerminal(conds)].Type = type

\* C19: when the test-run command has returned, waitForTestSuite and the
\* command returned nil exactly if the suite reached Succeeded, and a suite
\* that ended Failed or Error made both return an error.
C19_ResultContract ==
  testPc = "returned" =>
    /\ (waitResult = WNil) <=> EndedWith("Succeeded")
    /\ (runResult = WNil) <=> EndedWith("Succeeded")
    /\ (EndedWith("Failed") \/ EndedWith("Error")) =>
         (waitResult.kind = "error" /\ runResult.kind = "error")

\* C20: for every Added or Modified event that carries a suite, the first
\* call the exit condition made is the Status call with the statistics of
\* that suite, whatever its conditions are.
C20_StatisticsFirst ==
  \A k \in 1..Len(events) :
    CarriesSuite(events[k]) =>
      /\ WCallsAt(k) # <<>>
      /\ WCallsAt(k)[1] = WCall("Status", TestResultStatistic(events[k].object), k)

\* C21: a Deleted event handed to the exit condition ends the wait with that
\* event: the exit condition makes no call on the step, waitForTestSuite
\* returns an error classified NotFound, and the test-run command calls
\* Failure on the wait step as its last call and returns the same error.
C21_DeletedMidWatch ==
  \A k \in 1..Len(events) :
    events[k].type = "DELETED" =>
      /\ k = Len(events)
      /\ testPc = "returned"
      /\ IsNotFound(waitResult)
      /\ runResult = waitResult
      /\ WCallsAt(k) = <<>>
      /\ Last(waitStep) = WCall("Failure", <<>>, 0)

C21_Witness ==
  /\ Len(events) = 2
  /\ CarriesSuite(events[1])
  /\ events[1].object.Conditions # <<>>
  /\ events[2].type = "DELETED"
  /\ testPc = "returned"

\* C22: an event whose type is none of Added, Modified and Deleted ends the
\* wait with that event: the internal error is returned to the caller, it is
\* not classified NotFound, and the exit condition made no call on the step
\* for the event.
C22_UnknownEvent ==
  \A k \in 1..Len(events) :
    events[k].type \notin {"ADDED", "MODIFIED", "DELETED"} =>
      /\ k = Len(events)
      /\ testPc = "returned"
      /\ waitResult = ErrUnexpectedEvent
      /\ ~IsNotFound(waitResult)
      /\ runResult = waitResult
      /\ WCallsAt(k) = <<>>

C22_Witness ==
  /\ Len(events) = 2
  /\ events[2].type = "ERROR"
  /\ testPc = "returned"

\* an event that ends the wait whatever the deadline: a suite with a terminal
\* condition, a deletion, or an event of an unknown type
EndsWait(e) ==
  \/ CarriesSuite(e) /\ FirstTerminal(e.object.Conditions) > 0
  \/ e.type \notin {"ADDED", "MODIFIED"}

DeadlineErrors == {ErrWaitTimeout, ErrSync}

C28_SingleTerminalCall ==
  /\ testPc \in {"sync", "watch"} => Terminals(waitStep) = <<>>
  /\ (testPc = "returned" /\ waitStep # <<>>) => Len(Terminals(waitStep)) = 1

C28_Witness ==
  /\ testPc = "returned"
  /\ Len(events) = 2
  /\ events[2].type = "DELETED"
  /\ events[1].type = "ADDED"
  /\ Len(WCallsAt(1)) = 2

\* C26: a test-run command started with a count above 1 together with a
\* non-zero max-retries is rejected: it creates no suite, and no created
\* suite carries both values.
C26_CountXorMaxRetries ==
  /\ (testOpts.ExecutionCount > 1 /\ testOpts.MaxRetries # 0) =>
       (~testResource.created /\ testPc \in {"start", "returned"})
  /\ testResource.created => ~(testResource.Count > 1 /\ testResource.MaxRetries # 0)

\* C29: with the watch option false the test-run command never enters
\* waitForTestSuite: no wait step is created, no context is made, nothing
\* is waited for, and after creating the suite the command returns nil.
C29_WatchOption ==
  ~testOpts.Watch =>
    /\ testPc \in {"start", "run", "returned"}
    /\ waitStep = <<>>
    /\ ctx = "none"
    /\ waitResult = WNone
    /\ (testPc = "returned" /\ testResource.created) => runResult = WNil

\* which of --domain, --tlsKey and --tlsCert are specified
Specified(o) ==
  {f \in {"domain", "tlsKey", "tlsCert"} :
     \/ f = "domain" /\ o.Domain # localDomain
     \/ f = "tlsKey" /\ o.TLSKey # ""
     \/ f = "tlsCert" /\ o.TLSCert # ""}

SourceErrors == {ErrNoSrcPath, ErrSrcPath, ErrNotKymaRepo, ErrLatest, ErrSourceFlag}

\* C25: when validateFlags has returned, a combination with one or two of
\* --domain, --tlsKey and --tlsCert specified was rejected with an error; a
\* combination with all three or none of them was not rejected for the
\* combination: validateFlags returned nil or an error of the source flag.
C25_DomainTLSTogether ==
  runPc = "returned" =>
    /\ Cardinality(Specified(opts)) \in {1, 2} => installResult.kind = "error"
    /\ Cardinality(Specified(opts)) \in {0, 3} =>
         \/ installResult = ResNil
         \/ installResult.kind = "error" /\ installResult.msg \in SourceErrors
    /\ installResult = ResErr(ErrTogether) => Cardinality(Specified(opts)) \in {1, 2}

C25_Witness ==
  /\ runPc = "returned"
  /\ Cardinality(Specified(opts)) = 3
  /\ installResult = ResNil
  /\ opts.Local

\* x is an element of the sequence seq
InSeq(x, seq) == \E i \in 1..Len(seq) : seq[i] = x

\* the first position of x in seq (0: none)
FirstAt(x, seq) ==
  IF InSeq(x, seq) THEN CHOOSE i \in 1..Len(seq) : seq[i] = x /\ \A j \in 1..(i - 1) : seq[j] # x
  ELSE 0

\* C24: with noWait set the install command never calls waitForInstaller
\* (nothing of it runs: no status is read, no step of it is opened) and does
\* not import the certificate, it only logs the manual instructions; with
\* noWait not set the certificate import and the summary are reached only
\* after waitForInstaller was called and returned nil, and the instructions
\* are never logged.
C24_NoWait ==
  /\ opts.NoWait =>
       /\ ~InSeq("waitForInstaller", runCalls)
       /\ pc = "idle" /\ preSample = <<>> /\ samples = <<>> /\ result = ResNone
       /\ ~InSeq("ca.Certificate", runCalls)
       /\ ~InSeq("ca.StoreCertificate", runCalls)
       /\ \A i \in 1..Len(sink) : ~(sink[i].op = "Successf" /\ sink[i].text = CertMsgs.imported)
       /\ InSeq("importCertificate", runCalls) =>
            /\ InSeq("ca.Instructions", runCalls)
            /\ \E i \in 1..Len(sink) : sink[i].op = "LogError" /\ sink[i].text = CertMsgs.instructions
  /\ ~opts.NoWait =>
       /\ ~InSeq("ca.Instructions", runCalls)
       /\ (InSeq("importCertificate", runCalls) \/ InSeq("printSummary", runCalls)) =>
            /\ pc = "done" /\ result = ResNil
            /\ FirstAt("waitForInstaller", runCalls) > 0
            /\ FirstAt("waitForInstaller", runCalls) < FirstAt("importCertificate", runCalls)
            /\ FirstAt("importCertificate", runCalls) < FirstAt("printSummary", runCalls)
                 \/ ~InSeq("printSummary", runCalls)

\* C24 witness: a run with noWait has gone through to the summary, logging
\* the instructions instead of waiting and importing
C24_Witness ==
  /\ opts.NoWait
  /\ runPc = "returned"
  /\ installResult = ResNil
  /\ InSeq("ca.Instructions", runCalls)
  /\ InSeq("printSummary", runCalls)

\* C27: Stop closes the update channel exactly once under any number of
\* sequential or concurrent Stop calls made after Start: the channel is never
\* closed a second time, and every Stop call that got past the mutex found
\* the channel closed once; and a Stop call has returned only when the
\* rendering goroutine has ended the processing of every update it received
\* before the close (its error, if any, sent) and has terminated.
C27_StopClosesOnce ==
  /\ ui.closes <= 1
  /\ ui.panic # "close of closed channel"
  /\ \A s \in Stoppers :
       /\ stopPc[s] \in {"Done", "returned"} => ui.closes = 1 /\ ui.updates = "closed"
       /\ stopPc[s] = "returned" =>
            /\ renderer.pc = "done"
            /\ ui.cancelled
            /\ \A i \in 1..Len(updateLog) : updateLog[i].done
            /\ ui.Errors # "nil" =>
                 uiErrors = SelectSeq([i \in 1..Len(updateLog) |-> updateLog[i].err],
                                      LAMBDA e : e # Nil)

\* C27 witness: two Stop calls have returned after updates were rendered
\* and an error was sent
C27_Witness ==
  /\ \A s \in Stoppers : stopPc[s] = "returned"
  /\ Len(updateLog) >= 2
  /\ uiErrors # <<>>
  /\ ui.closes = 1

\* the updates of the log before position i that start the phase of update i
StartsBefore(i) ==
  {j \in 1..(i - 1) : /\ updateLog[j].update.Event = "ProcessStart"
                      /\ updateLog[j].update.Phase = updateLog[i].update.Phase}

\* the positions in the sink of the calls that create the major step of a phase
MajorSteps(phase) ==
  {k \in 1..Len(uiSink) : uiSink[k].op = "NewStep" /\ uiSink[k].text = StepMsg(phase)}

\* C30: over any sequence of updates at most one major step is created per
\* installation phase, and the table holds that step; a ProcessStart for a
\* phase that was started before returns the illegal-state error and makes
\* no call on any step, while the first ProcessStart of a phase returns no
\* error and creates the step.
C30_StartPairing ==
  /\ \A phase \in InstallationPhases :
       /\ Cardinality(MajorSteps(phase)) <= 1
       /\ \A k \in MajorSteps(phase) : renderer.ongoingSteps[phase] = uiSink[k].step
       /\ MajorSteps(phase) = {} => renderer.ongoingSteps[phase] = 0
  /\ \A i \in 1..Len(updateLog) :
       updateLog[i].update.Event = "ProcessStart" =>
         IF StartsBefore(i) # {}
         THEN /\ updateLog[i].err = ErrStartExists(updateLog[i].update.Phase)
              /\ \A k \in 1..Len(uiSink) : uiSink[k].iter # i
         ELSE /\ updateLog[i].err = Nil
              /\ \E k \in MajorSteps(updateLog[i].update.Phase) : uiSink[k].iter = i

\* C30 witness: a phase was started twice and the second start's error was
\* sent
C30_Witness ==
  /\ \E i \in 1..Len(updateLog) :
       /\ updateLog[i].update.Event = "ProcessStart"
       /\ StartsBefore(i) # {}
       /\ updateLog[i].done
  /\ uiErrors # <<>>

\* the calls made while update i was rendered
UiSinkAt(i) == SelectSeq(uiSink, LAMBDA c : c.iter = i)

\* C31: an event other than ProcessStart and ProcessRunning, of a phase or
\* of a component, for a phase that no start event has given a step returns
\* the illegal-state error and makes no call at all (no step is created,
\* none gets Success or Failure); a ProcessRunning event makes no call and
\* returns no error, whether its phase has a step or not.
C31_StopPairing ==
  \A i \in 1..Len(updateLog) :
    LET u == updateLog[i].update
    IN /\ (u.Event \notin {"ProcessStart", "ProcessRunning"} /\ StartsBefore(i) = {}) =>
            /\ updateLog[i].err = ErrNoMajorStep(u.Phase)
            /\ UiSinkAt(i) = <<>>
       /\ u.Event = "ProcessRunning" =>
            /\ updateLog[i].err = Nil
            /\ UiSinkAt(i) = <<>>
            /\ updateLog[i].done

\* C31 witness: a component's stop event and a running event were rendered
\* for phases without a step, and another phase has one
C31_Witness ==
  /\ \E i \in 1..Len(updateLog) :
       /\ updateLog[i].update.Event = "ProcessFinished"
       /\ updateLog[i].update.Component.Name # ""
       /\ StartsBefore(i) = {}
       /\ updateLog[i].done
  /\ \E i \in 1..Len(updateLog) : updateLog[i].update.Event = "ProcessRunning"
  /\ uiSink # <<>>

\* the step of a phase: the one its first start event created (0: none yet)
PhaseStep(phase) ==
  IF MajorSteps(phase) = {} THEN 0
  ELSE uiSink[CHOOSE k \in MajorSteps(phase) : \A l \in MajorSteps(phase) : k <= l].step

\* the number of steps created before update i was rendered
StepsBefore(i) ==
  Len(SelectSeq(uiSink, LAMBDA c : c.op = "NewStep" /\ c.iter < i))

\* C32: for a phase that was started, an event of the phase itself (empty
\* component name) other than start and running makes one call, on the
\* phase's step: Success with no error if the event is ProcessFinished,
\* Failure with the failed-phase error otherwise; an event of a component
\* creates one new step labelled with the component and ends it with
\* Failure and the failed-component error if the component's status is
\* Error, with Success and no error otherwise, and makes no call on the
\* phase's step.
C32_StopMapping ==
  \A i \in 1..Len(updateLog) :
    LET u == updateLog[i].update
        step == StepsBefore(i) + 1
    IN (u.Event \notin {"ProcessStart", "ProcessRunning"} /\ StartsBefore(i) # {}) =>
         IF u.Component.Name = ""
         THEN IF u.Event = "ProcessFinished"
              THEN /\ UiSinkAt(i) = <<Success(PhaseStep(u.Phase), i)>>
                   /\ updateLog[i].err = Nil
              ELSE /\ UiSinkAt(i) = <<Failure(PhaseStep(u.Phase), i)>>
                   /\ updateLog[i].err = ErrPhaseFailed(u.Phase, u.Event)
         ELSE /\ step # PhaseStep(u.Phase)
              /\ IF u.Component.Status = "Error"
                 THEN /\ UiSinkAt(i) = <<NewStep(step, ComponentLabel(u.Component.Name), i),
                                         Failure(step, i)>>
                      /\ updateLog[i].err = ErrComponentFailed(u.Component.Name)
                 ELSE /\ UiSinkAt(i) = <<NewStep(step, ComponentLabel(u.Component.Name), i),
                                         Success(step, i)>>
                      /\ updateLog[i].err = Nil

\* C32 witness: after the start of a phase a component of it failed and the
\* phase itself then failed
C32_Witness ==
  /\ Len(updateLog) = 3
  /\ updateLog[1].update.Event = "ProcessStart"
  /\ updateLog[2].update.Component.Status = "Error"
  /\ updateLog[2].err = ErrComponentFailed("istio")
  /\ updateLog[3].update.Event = "ProcessExecutionFailure"
  /\ updateLog[3].update.Component.Name = ""
  /\ updateLog[3].err = ErrPhaseFailed("InstallComponents", "ProcessExecutionFailure")

\* update i is a stop event of the phase itself
PhaseStopAt(i) ==
  /\ updateLog[i].update.Event \notin {"ProcessStart", "ProcessRunning"}
  /\ updateLog[i].update.Component.Name = ""

\* the phase has received a start event and no stop event of its own after
\* the last one
Ongoing(phase) ==
  \E i \in 1..Len(updateLog) :
    /\ updateLog[i].update.Event = "ProcessStart"
    /\ updateLog[i].update.Phase = phase
    /\ \A j \in (i + 1)..Len(updateLog) :
         ~(PhaseStopAt(j) /\ updateLog[j].update.Phase = phase)

\* C33: at every point the table of ongoing steps holds exactly the phases
\* that have received a start event and not yet a stop event of the phase;
\* each step of a phase receives at most one Success or Failure call; and a
\* start event for a phase that has stopped creates a step and returns no
\* error.
C33_OngoingStepsTable ==
  /\ \A phase \in InstallationPhases :
       renderer.ongoingSteps[phase] # 0 <=> Ongoing(phase)
  /\ \A k \in 1..Len(uiSink) :
       (uiSink[k].op = "NewStep" /\ \E phase \in InstallationPhases : uiSink[k].text = StepMsg(phase)) =>
         Cardinality({l \in 1..Len(uiSink) :
                        uiSink[l].op \in {"Success", "Failure"} /\ uiSink[l].step = uiSink[k].step}) <= 1
  /\ \A i \in 1..Len(updateLog) :
       (/\ updateLog[i].update.Event = "ProcessStart"
        /\ \E j \in 1..(i - 1) :
             /\ PhaseStopAt(j)
             /\ updateLog[j].update.Phase = updateLog[i].update.Phase
             /\ \A l \in (j + 1)..(i - 1) :
                  ~(updateLog[l].update.Event = "ProcessStart"
                    /\ updateLog[l].update.Phase = updateLog[i].update.Phase)
        /\ \E j \in StartsBefore(i) : TRUE) =>
         /\ updateLog[i].err = Nil
         /\ \E k \in 1..Len(uiSink) : uiSink[k].op = "NewStep" /\ uiSink[k].iter = i

\* the errors the rendering returned for the updates of the log, in order
RenderingErrors(log) ==
  SelectSeq([i \in 1..Len(log) |-> log[i].err], LAMBDA e : e # Nil)

\* the errors are sent on Errors once each and in the order of the updates;
\* only the last update received can still be waiting for its send
ErrorsInOrder ==
  /\ \A i \in 1..(Len(updateLog) - 1) : updateLog[i].done
  /\ ui.Errors = "nil" => uiErrors = <<>> /\ renderer.pc # "sendError"
  /\ ui.Errors # "nil" =>
       LET errs == RenderingErrors(updateLog)
       IN IF renderer.pc = "sendError"
          THEN /\ errs # <<>>
               /\ uiErrors = SubSeq(errs, 1, Len(errs) - 1)
               /\ renderer.err = Last(errs)
               /\ ~Last(updateLog).done
          ELSE /\ uiErrors = errs
               /\ \A i \in 1..Len(updateLog) : updateLog[i].done

\* C34: when every error sent on Errors is received (or Errors is nil), a
\* Stop called on a started AsyncUI eventually returns, whatever updates
\* were accepted before; each error of the rendering is sent on Errors once
\* and in the order of the events, and no update is received while a send
\* is pending.
C34_ShutdownLiveness ==
  /\ []ErrorsInOrder
  /\ \A s \in Stoppers :
       (stopPc[s] = "Lock" /\ ui.updates # "nil") ~> (stopPc[s] = "returned")

\* C34 witness: a Stop has returned after two errors were sent on Errors
C34_Witness ==
  /\ \E s \in Stoppers : stopPc[s] = "returned"
  /\ Len(uiErrors) >= 2

\* the steps of command.Run up to the wait (made unless noWait is set), by
\* the cluster and the domain
OrderedSteps ==
  <<Steps.validate, Steps.source>> \o RunSteps(opts, clusterConfig.isLocal)
  \o (IF opts.NoWait THEN <<>> ELSE <<RunStep("waitForInstaller", WaitingLabel, <<>>)>>)

\* seq and other agree on the positions both have
Agree(seq, other) ==
  \A k \in 1..Len(seq) : k <= Len(other) => seq[k] = other[k]

\* the step an action of which has failed: Failure was called on it, it is
\* the last step opened and its action the last one executed
FailedAt(stepNo) ==
  /\ \E k \in 1..Len(sink) : sink[k].op = "Failure" /\ sink[k].step = stepNo
  /\ \A k \in 1..Len(sink) : sink[k].op = "NewStep" => sink[k].step <= stepNo
  /\ stepNo <= Len(OrderedSteps)
  /\ Last(runCalls) = OrderedSteps[stepNo].op

\* C35: command.Run opens its steps and executes their actions in the fixed
\* order validate flags, check source, install Tiller, read cluster info,
\* load files, deploy installer, patch Minikube IP or create the own-domain
\* ConfigMap, configure Helm, activate installer, wait for installer; when
\* the action of one of them returns an error, Failure is called on that
\* step, that error is what Run returns, and no later step is opened and no
\* later action executed.
C35_FailFastOrder ==
  /\ Agree(SelectSeq([k \in 1..Len(sink) |-> IF sink[k].op = "NewStep" /\ sink[k].iter = 0
                                               THEN sink[k].text ELSE <<"-">>],
                     LAMBDA t : t # <<"-">>),
           [k \in 1..Len(OrderedSteps) |-> OrderedSteps[k].label])
  /\ Agree(runCalls,
           SelectSeq([k \in 1..Len(OrderedSteps) |-> OrderedSteps[k].op], LAMBDA o : o # ""))
  /\ (/\ runPc = "returned"
      /\ installResult.kind = "error"
      /\ installResult.msg # ErrClient
      /\ ~InSeq("importCertificate", runCalls)) =>
       /\ FailedAt(CurrentStep)
       /\ Last(runCalls) = "waitForInstaller" => installResult = result
       /\ (Last(runCalls) \notin {"waitForInstaller", "validateFlags"}) =>
            installResult = ResErr(ErrOf(Last(runCalls)))

\* the actions of command.Run after the status check, in order
MkActionOps ==
  SelectSeq([k \in 1..Len(MkProgram) |-> IF MkProgram[k].kind = "Do" THEN MkProgram[k].op ELSE ""],
            LAMBDA o : o # "")

\* C36: an existing Minikube cluster is deleted only in non-interactive mode
\* or after the user has answered yes to the prompt, and in non-interactive
\* mode nothing is asked; when the user declines, the cluster is not
\* deleted, the status step is not marked failed but succeeds, and
\* command.Run goes on with the remaining steps in their order, its result
\* being theirs and never the already-running error.
C36_ExistingMinikube ==
  /\ InSeq("delete", minikube.cmds) =>
       /\ TrimSpace(minikube.statusText) # <<>>
       /\ minikube.opts.NonInteractive \/ minikube.answers = <<TRUE>>
  /\ minikube.opts.NonInteractive =>
       /\ minikube.pc # "prompt"
       /\ minikube.answers = <<>>
       /\ \A k \in 1..Len(mkSink) : mkSink[k].op # "PromptYesNo"
  /\ minikube.answers = <<FALSE>> =>
       /\ ~InSeq("delete", minikube.cmds)
       /\ \A k \in 1..Len(mkSink) : ~(mkSink[k].op = "Failure" /\ mkSink[k].step = 2)
       /\ InSeq(Call("Successf", 2, <<"Minikube status verified">>, 0), mkSink)
       /\ minikube.pc = "returned"
       /\ minikube.result # ResErr(ErrMinikubeRunning)
       /\ Len(minikube.cmds) > 2
       /\ Agree(SubSeq(minikube.cmds, 3, Len(minikube.cmds)), MkActionOps)
       /\ minikube.result = ResNil => Len(minikube.cmds) = 2 + Len(MkActionOps)
       /\ minikube.result.kind = "error" => minikube.result.msg = ErrOf(Last(minikube.cmds))

\* C36 witness: the user declined and the provisioning went through
C36_Witness ==
  /\ ~minikube.opts.NonInteractive
  /\ minikube.answers = <<FALSE>>
  /\ TrimSpace(minikube.statusText) # <<>>
  /\ minikube.result = ResNil
  /\ Last(minikube.cmds) = "printSummary"


====
